---- MODULE Spec2Model ----
(***************************************************************************)
(* Model of the struct validator of govalidator (validator.go, error.go):  *)
(* Validate, validateStruct, validateField and the package-level state     *)
(* they share (errorsMap, tags, msgs, fieldsRequiredByDefault).            *)
(*                                                                         *)
(* A Go string is a sequence of one-character strings, so that splitting,  *)
(* trimming, prefix tests and concatenation are computed as the code       *)
(* computes them.  A Go map is a function whose domain is its key set.     *)
(***************************************************************************)
EXTENDS Integers, Sequences, FiniteSets, TLC

\* ------------------------------------------------------------------------
\* Bounds of the model
\* ------------------------------------------------------------------------

\* Largest number of rule tokens in a generated annotation.
MaxRules == 3

\* Largest number of elements in a generated slice or map.
MaxElems == 2

\* Largest number of records wrapped around a generated nested record.
MaxDepth == 2

\* ------------------------------------------------------------------------
\* Strings
\* ------------------------------------------------------------------------

EmptyStr == <<>>

LowerLetters == {"a", "b", "c", "d", "e", "f", "g", "h", "i", "j", "k", "l", "m",
                 "n", "o", "p", "q", "r", "s", "t", "u", "v", "w", "x", "y", "z"}

UpperLetters == {"A", "B", "C", "D", "E", "F", "G", "H", "I", "J", "K", "L", "M",
                 "N", "O", "P", "Q", "R", "S", "T", "U", "V", "W", "X", "Y", "Z"}

DigitChars == <<"0", "1", "2", "3", "4", "5", "6", "7", "8", "9">>

\* unicode.IsLetter, on the ASCII letters
IsLetter(c) == c \in LowerLetters \cup UpperLetters

\* unicode.IsDigit, on the ASCII digits
IsDigit(c) == \E i \in 1..10 : DigitChars[i] = c

DigitVal(c) == (CHOOSE i \in 1..10 : DigitChars[i] = c) - 1

\* strings.Index(s, c) for a one-character c: 0 when absent (1-based otherwise)
IndexOf(s, c) ==
    IF \A i \in 1..Len(s) : s[i] # c THEN 0
    ELSE CHOOSE i \in 1..Len(s) : s[i] = c /\ \A j \in 1..(i - 1) : s[j] # c

\* strings.LastIndex(s, c): 0 when absent
LastIndexOf(s, c) ==
    IF \A i \in 1..Len(s) : s[i] # c THEN 0
    ELSE CHOOSE i \in 1..Len(s) : s[i] = c /\ \A j \in (i + 1)..Len(s) : s[j] # c

\* strings.Split(s, sep) for a one-character separator: never empty
RECURSIVE Split(_, _)
Split(s, sep) ==
    LET p == IndexOf(s, sep)
    IN  IF p = 0 THEN <<s>>
        ELSE <<SubSeq(s, 1, p - 1)>> \o Split(SubSeq(s, p + 1, Len(s)), sep)

\* strings.Trim(s, cutset) for a one-character cutset
Trim(s, c) ==
    IF \A i \in 1..Len(s) : s[i] = c THEN EmptyStr
    ELSE LET lo == CHOOSE i \in 1..Len(s) : s[i] # c /\ \A j \in 1..(i - 1) : s[j] = c
             hi == CHOOSE i \in 1..Len(s) : s[i] # c /\ \A j \in (i + 1)..Len(s) : s[j] = c
         IN  SubSeq(s, lo, hi)

\* strings.TrimSpace; the space is the only white space of the model's alphabet
TrimSpace(s) == Trim(s, " ")

\* strings.HasPrefix
HasPrefix(s, p) == Len(s) >= Len(p) /\ SubSeq(s, 1, Len(p)) = p

\* strings.Join
RECURSIVE Join(_, _)
Join(ss, sep) ==
    IF Len(ss) = 0 THEN EmptyStr
    ELSE IF Len(ss) = 1 THEN ss[1]
    ELSE ss[1] \o sep \o Join(Tail(ss), sep)

\* the decimal rendering of an integer (fmt.Sprint of an integer kind)
RECURSIVE NatToStr(_)
NatToStr(n) ==
    IF n < 10 THEN <<DigitChars[n + 1]>>
    ELSE NatToStr(n \div 10) \o <<DigitChars[(n % 10) + 1]>>

IntToStr(n) == IF n < 0 THEN <<"-">> \o NatToStr(-n) ELSE NatToStr(n)

\* the value of a string of decimal digits
RECURSIVE DigitsToNat(_)
DigitsToNat(s) ==
    IF Len(s) = 0 THEN 0
    ELSE 10 * DigitsToNat(SubSeq(s, 1, Len(s) - 1)) + DigitVal(s[Len(s)])

AllDigits(s) == Len(s) > 0 /\ \A i \in 1..Len(s) : IsDigit(s[i])

\* Go maps
EmptyMap == <<>>
HasKey(m, k) == k \in DOMAIN m
Lookup(m, k) == IF k \in DOMAIN m THEN m[k] ELSE EmptyStr
Put(m, k, v) == [x \in (DOMAIN m) \cup {k} |-> IF x = k THEN v ELSE m[x]]
Delete(m, k) == [x \in (DOMAIN m) \ {k} |-> m[x]]

\* ------------------------------------------------------------------------
\* Values (reflect.Value) and struct fields (reflect.StructField)
\* ------------------------------------------------------------------------

T_required  == <<"r", "e", "q", "u", "i", "r", "e", "d">>
T_optional  == <<"o", "p", "t", "i", "o", "n", "a", "l">>
T_forbidden == <<"f", "o", "r", "b", "i", "d", "d", "e", "n">>
T_dash      == <<"-">>

\* Every value is a record of one shape; kind says which components count.
\*   string: str     int: num     bool: b
\*   ptr, interface: isNil, elems (the one referenced / held value)
\*   slice: isNil, elems     map: isNil, keyKind, keys, elems (parallel)
\*   struct: fields (descriptors), elems (the field values, parallel)
\*   chan: isNil     nil: the untyped nil interface     invalid: reflect's zero Value
Value(kind) ==
    [kind |-> kind, str |-> EmptyStr, num |-> 0, b |-> FALSE, isNil |-> FALSE,
     keyKind |-> "string", keys |-> <<>>, fields |-> <<>>, elems |-> <<>>]

StringV(s)    == [Value("string") EXCEPT !.str = s]
IntV(n)       == [Value("int") EXCEPT !.num = n]
BoolV(x)      == [Value("bool") EXCEPT !.b = x]
PtrV(e)       == [Value("ptr") EXCEPT !.elems = <<e>>]
NilPtrV       == [Value("ptr") EXCEPT !.isNil = TRUE]
IfaceV(e)     == [Value("interface") EXCEPT !.elems = <<e>>]
NilIfaceV     == [Value("interface") EXCEPT !.isNil = TRUE]
SliceV(es)    == [Value("slice") EXCEPT !.elems = es]
NilSliceV     == [Value("slice") EXCEPT !.isNil = TRUE]
MapV(ks, es)  == [Value("map") EXCEPT !.keys = ks, !.elems = es]
IntKeyMapV(ks, es) == [Value("map") EXCEPT !.keyKind = "int", !.keys = ks, !.elems = es]
NilMapV       == [Value("map") EXCEPT !.isNil = TRUE]
ChanV         == [Value("chan") EXCEPT !.isNil = TRUE]
StructV(fs, es) == [Value("struct") EXCEPT !.fields = fs, !.elems = es]
NilV          == Value("nil")
InvalidV      == Value("invalid")

\* reflect.StructField: Name, PkgPath ("" for an exported field) and the two
\* tags the validator reads, Tag.Get("valid") and Tag.Get("json")
Field(name, valid, json) ==
    [Name |-> name, PkgPath |-> EmptyStr, valid |-> valid, json |-> json]

PrivateField(name, valid, json) ==
    [Name |-> name, PkgPath |-> <<"m", "a", "i", "n">>, valid |-> valid, json |-> json]

ScalarKinds == {"string", "int", "bool"}

\* v.Elem() of a pointer or interface: the zero Value when it is nil
Elem(v) == IF v.isNil \/ Len(v.elems) = 0 THEN InvalidV ELSE v.elems[1]

\* v.Interface(): what the value is as an interface{}; an interface-kind value
\* gives the value it holds (the untyped nil when it holds none)
Interface(v) ==
    IF v.kind = "interface" THEN (IF v.isNil THEN NilV ELSE v.elems[1]) ELSE v

\* reflect.DeepEqual(v.Interface(), reflect.Zero(v.Type()).Interface())
RECURSIVE IsZero(_)
IsZero(v) ==
    CASE v.kind = "string" -> Len(v.str) = 0
      [] v.kind = "int" -> v.num = 0
      [] v.kind = "bool" -> ~v.b
      [] v.kind = "struct" -> \A i \in 1..Len(v.elems) : IsZero(v.elems[i])
      [] OTHER -> v.isNil

isEmptyValue(v) ==
    CASE v.kind = "string" -> Len(v.str) = 0
      [] v.kind \in {"map", "slice"} -> Len(v.elems) = 0 \/ v.isNil
      [] v.kind = "bool" -> ~v.b
      [] v.kind = "int" -> v.num = 0
      [] v.kind \in {"interface", "ptr"} -> v.isNil
      [] OTHER -> IsZero(v)

\* fmt.Sprint(v).  A non-nil pointer to a scalar and a channel print as an
\* address, which differs from run to run: the model prints a fixed one.
RECURSIVE Sprint(_)
RECURSIVE SprintAll(_)
SprintAll(vs) ==
    IF Len(vs) = 0 THEN EmptyStr
    ELSE IF Len(vs) = 1 THEN Sprint(vs[1])
    ELSE Sprint(vs[1]) \o <<" ">> \o SprintAll(Tail(vs))

RECURSIVE SprintEntries(_, _)
SprintEntries(ks, vs) ==
    IF Len(ks) = 0 THEN EmptyStr
    ELSE ks[1] \o <<":">> \o Sprint(vs[1])
         \o (IF Len(ks) = 1 THEN EmptyStr ELSE <<" ">> \o SprintEntries(Tail(ks), Tail(vs)))

Sprint(v) ==
    CASE v.kind = "string" -> v.str
      [] v.kind = "int" -> IntToStr(v.num)
      [] v.kind = "bool" -> (IF v.b THEN <<"t", "r", "u", "e">> ELSE <<"f", "a", "l", "s", "e">>)
      [] v.kind = "slice" -> <<"[">> \o SprintAll(v.elems) \o <<"]">>
      [] v.kind = "struct" -> <<"{">> \o SprintAll(v.elems) \o <<"}">>
      [] v.kind = "map" -> <<"m", "a", "p", "[">> \o SprintEntries(v.keys, v.elems) \o <<"]">>
      [] v.kind \in {"ptr", "interface"} /\ v.isNil -> <<"<", "n", "i", "l", ">">>
      [] v.kind = "interface" -> Sprint(v.elems[1])
      [] v.kind = "ptr" /\ v.elems[1].kind = "struct" -> <<"&">> \o Sprint(v.elems[1])
      [] v.kind = "nil" -> <<"<", "n", "i", "l", ">">>
      [] v.kind = "invalid" -> <<"<", "i", "n", "v", "a", "l", "i", "d", " ", "r", "e", "f", "l", "e", "c", "t", ".", "V", "a", "l", "u", "e", ">">>
      [] OTHER -> <<"0", "x", "c", "0", "0", "0", "0", "1", "0", "0", "0", "0">>

\* v.Kind().String()
KindName(v) ==
    CASE v.kind = "string" -> <<"s", "t", "r", "i", "n", "g">>
      [] v.kind = "int" -> <<"i", "n", "t">>
      [] v.kind = "bool" -> <<"b", "o", "o", "l">>
      [] v.kind = "ptr" -> <<"p", "t", "r">>
      [] v.kind = "interface" -> <<"i", "n", "t", "e", "r", "f", "a", "c", "e">>
      [] v.kind = "slice" -> <<"s", "l", "i", "c", "e">>
      [] v.kind = "map" -> <<"m", "a", "p">>
      [] v.kind = "struct" -> <<"s", "t", "r", "u", "c", "t">>
      [] v.kind = "chan" -> <<"c", "h", "a", "n">>
      [] OTHER -> <<"i", "n", "v", "a", "l", "i", "d">>

\* ------------------------------------------------------------------------
\* Errors (error.go)
\* ------------------------------------------------------------------------

\* the nil error
NilErr ==
    [isNil |-> TRUE, Name |-> EmptyStr, Err |-> EmptyStr,
     CustomErrorMessageExists |-> FALSE, Validator |-> EmptyStr]

\* Error{Name, Err, CustomErrorMessageExists, Validator}; Err holds the text of
\* the wrapped error
Error(name, text, custom, validator) ==
    [isNil |-> FALSE, Name |-> name, Err |-> text,
     CustomErrorMessageExists |-> custom, Validator |-> validator]

\* Error() handing back the wrapped text as it is
ErrorText_untrimmed(e) == e.Err

\* func (e Error) Error() string
ErrorText(e) == Trim(e.Err, " ")

\* NewError(err): wraps err, whose text is then err.Error()
NewError(err) == Error(EmptyStr, ErrorText(err), TRUE, EmptyStr)

\* func (es Errors) Error() string
RECURSIVE ErrorsText(_)
ErrorsText(es) ==
    IF Len(es) = 0 THEN EmptyStr
    ELSE IF Len(es) = 1 THEN ErrorText(es[1])
    ELSE ErrorText(es[1]) \o <<";">> \o ErrorsText(Tail(es))

\* an Errors list handed on as one error value
ErrorsAsError(es) == Error(EmptyStr, ErrorsText(es), TRUE, EmptyStr)

\* &UnsupportedTypeError{v.Type()}
UnsupportedTypeError(v) ==
    Error(EmptyStr, <<"v", "a", "l", "i", "d", "a", "t", "o", "r", ":", " ", "u", "n", "s", "u", "p", "p", "o", "r", "t", "e", "d", " ", "t", "y", "p", "e", ":", " ">> \o KindName(v), FALSE, EmptyStr)

\* fmt.Errorf(format) with no operands: a text without "%" is kept as it is; a
\* verb finds no operand ("%!v(MISSING)"), "%%" is a percent sign and a "%"
\* ending the text has no verb ("%!(NOVERB)")
RECURSIVE Errorf(_)
Errorf(format) ==
    LET p == IndexOf(format, "%")
    IN  IF p = 0 THEN format
        ELSE IF p = Len(format) THEN SubSeq(format, 1, p - 1) \o <<"%", "!", "(", "N", "O", "V", "E", "R", "B", ")">>
        ELSE IF format[p + 1] = "%"
             THEN SubSeq(format, 1, p) \o Errorf(SubSeq(format, p + 2, Len(format)))
        ELSE SubSeq(format, 1, p - 1) \o <<"%", "!">> \o <<format[p + 1]>> \o <<"(", "M", "I", "S", "S", "I", "N", "G", ")">>
             \o Errorf(SubSeq(format, p + 2, Len(format)))

\* stripParams: the trailing parenthesised group (paramsRegexp) is cut off
stripParams(validatorString) ==
    LET p == IndexOf(validatorString, "(")
        n == Len(validatorString)
    IN  IF p > 0 /\ validatorString[n] = ")" THEN SubSeq(validatorString, 1, p - 1)
        ELSE validatorString

\* ------------------------------------------------------------------------
\* Rule registry: TagMap, ParamTagMap, ParamTagRegexMap, CustomTypeTagMap
\* ------------------------------------------------------------------------

R_email  == <<"e", "m", "a", "i", "l">>
R_alpha  == <<"a", "l", "p", "h", "a">>
R_length == <<"l", "e", "n", "g", "t", "h">>
R_in     == <<"i", "n">>
R_cust   == <<"c", "u", "s", "t">>
R_cust2  == <<"c", "u", "s", "t", "2">>

\* IsEmail: a local part, "@", and a dotted domain, of letters and digits
IsEmail(str) ==
    LET at == IndexOf(str, "@")
        dot == LastIndexOf(str, ".")
    IN  /\ at > 1
        /\ dot > at + 1
        /\ dot < Len(str)
        /\ \A i \in 1..Len(str) :
              i \in {at, dot} \/ IsLetter(str[i]) \/ IsDigit(str[i])

\* IsAlpha: the null string passes
IsAlpha(str) == \A i \in 1..Len(str) : IsLetter(str[i])

\* the zero-parameter rules
TagMapNames == {R_email, R_alpha}

TagMapFunc(name, str) ==
    IF name = R_email THEN IsEmail(str) ELSE IsAlpha(str)

\* ToInt: the value of a decimal string, 0 when it is none
ToInt(s) == IF AllDigits(s) THEN DigitsToNat(s) ELSE 0

\* ByteLength(str, params...)
ByteLength(str, params) ==
    IF Len(params) = 2
    THEN Len(str) >= ToInt(params[1]) /\ Len(str) <= ToInt(params[2])
    ELSE FALSE

\* IsIn(str, params...)
IsIn(str, params) == \E i \in 1..Len(params) : str = params[i]

\* isInRaw(str, params...)
isInRaw(str, params) ==
    IF Len(params) = 1 THEN IsIn(str, Split(params[1], "|")) ELSE FALSE

\* the parameterized rules
ParamTagNames == {R_length, R_in}

ParamTagFunc(key, str, params) ==
    IF key = R_length THEN ByteLength(str, params) ELSE isInRaw(str, params)

NoMatch == [ok |-> FALSE, ps |-> <<>>]

\* ParamTagRegexMap[key].FindStringSubmatch(validator): whether it matches and
\* the submatches ps[1:].  length: ^length\((\d+)\|(\d+)\)$   in: ^in\((.*)\)
ParamTagRegexMatch(key, validator) ==
    LET n == Len(validator)
    IN  IF key = R_length
        THEN IF HasPrefix(validator, <<"l", "e", "n", "g", "t", "h", "(">>) /\ validator[n] = ")"
             THEN LET parts == Split(SubSeq(validator, 8, n - 1), "|")
                  IN  IF Len(parts) = 2 /\ AllDigits(parts[1]) /\ AllDigits(parts[2])
                      THEN [ok |-> TRUE, ps |-> parts]
                      ELSE NoMatch
             ELSE NoMatch
        ELSE IF HasPrefix(validator, <<"i", "n", "(">>) /\ LastIndexOf(validator, ")") > 3
             THEN [ok |-> TRUE,
                   ps |-> <<SubSeq(validator, 4, LastIndexOf(validator, ")") - 1)>>]
             ELSE NoMatch

\* the registered custom-typed rules
CustomTypeTagNames == {R_cust, R_cust2}

\* CustomTypeTagMap.Get(tag) applied to (v.Interface(), o.Interface()): the two
\* registered custom validators accept the strings of at least two (cust) and of
\* at least seven (cust2) characters
CustomTypeValidate(tag, v, o) ==
    v.kind = "string" /\ Len(v.str) >= (IF tag = R_cust THEN 2 ELSE 7)

\* ------------------------------------------------------------------------
\* Package-level state (validator.go:25-33) and the caller's view
\* ------------------------------------------------------------------------

VARIABLES
    fieldsRequiredByDefault,  \* the flag set by SetFieldsRequiredByDefault
    errorsMap,                \* [isNil, m, ref]: nil until the first Validate; m maps a key to its
                              \* messages; ref is the map object the variable points to
    tags,                     \* [arr, n]: the slice's backing array and its length
    msgs,                     \* the custom message of each parsed rule token
    arg,                      \* the value the caller hands to Validate
    ret,                      \* what the last Validate call returned to the caller, with the
                              \* error of validateStruct it computed on the way
    earlier,                  \* a report of a call before the last one that the caller still
                              \* holds: the call as it returned, and the report object as it reads now
    unit,                     \* a function of the package applied on its own: its name, what it
                              \* was given and, once it has returned, what it returned
    calls                     \* the Validate calls of concurrent goroutines: for each its position,
                              \* its record, its locals and what it returned

vars == <<fieldsRequiredByDefault, errorsMap, tags, msgs, arg, ret, earlier, calls, unit>>

\* the map objects make can hand out; "none" is the nil map
MapObjects == {"map1", "map2", "map3"}

\* make handing out one object again and again
make_reused(live) == CHOOSE o \in MapObjects : TRUE

\* make(map[string][]string): an object no holder in live points to
make(live) == CHOOSE o \in MapObjects : o \notin live

\* The state the walk reads and writes, threaded through the recursion.
Globals(e, t, m) == [errorsMap |-> e, tags |-> t, msgs |-> m]

\* the result of validateStruct / validateField together with the state left
Result(isValid, err, g) == [isValid |-> isValid, err |-> err, g |-> g]

\* make(tagMap, 0) and the appends that follow: a fresh backing array
NewTags(ts) == [arr |-> ts, n |-> Len(ts)]

\* the JSON tag taken whole, its options included
toJSONName_withOptions(tag) == IF tag = T_dash THEN EmptyStr ELSE tag

toJSONName(tag) ==
    IF tag = EmptyStr THEN EmptyStr
    ELSE LET name == Split(tag, ",")[1]
         IN  IF name = T_dash THEN EmptyStr ELSE name

M_allRequired == <<"A", "l", "l", " ", "f", "i", "e", "l", "d", "s", " ", "a", "r", "e", " ", "r", "e", "q", "u", "i", "r", "e", "d", " ", "t", "o", " ", "a", "t", " ", "l", "e", "a", "s", "t", " ", "h", "a", "v", "e", " ", "o", "n", "e", " ", "v", "a", "l", "i", "d", "a", "t", "i", "o", "n", " ", "d", "e", "f", "i", "n", "e", "d">>
M_nonZero     == <<"n", "o", "n", " ", "z", "e", "r", "o", " ", "v", "a", "l", "u", "e", " ", "r", "e", "q", "u", "i", "r", "e", "d">>
M_missing     == <<"M", "i", "s", "s", "i", "n", "g", " ", "r", "e", "q", "u", "i", "r", "e", "d", " ", "f", "i", "e", "l", "d">>
M_illegal     == <<"I", "l", "l", "e", "g", "a", "l", " ", "a", "t", "t", "r", "i", "b", "u", "t", "e">>
M_notValidate == <<" ", "d", "o", "e", "s", " ", "n", "o", "t", " ", "v", "a", "l", "i", "d", "a", "t", "e", " ", "a", "s", " ">>
M_doesValidate == <<" ", "d", "o", "e", "s", " ", "v", "a", "l", "i", "d", "a", "t", "e", " ", "a", "s", " ">>
M_invalidValidator == <<"T", "h", "e", " ", "f", "o", "l", "l", "o", "w", "i", "n", "g", " ", "v", "a", "l", "i", "d", "a", "t", "o", "r", " ", "i", "s", " ", "i", "n", "v", "a", "l", "i", "d", " ", "o", "r", " ", "c", "a", "n", "'", "t", " ", "b", "e", " ", "a", "p", "p", "l", "i", "e", "d", " ", "t", "o", " ", "t", "h", "e", " ", "f", "i", "e", "l", "d", ":", " ">>
M_onlyStructs == <<"f", "u", "n", "c", "t", "i", "o", "n", " ", "o", "n", "l", "y", " ", "a", "c", "c", "e", "p", "t", "s", " ", "s", "t", "r", "u", "c", "t", "s", ";", " ", "g", "o", "t", " ">>

\* appendErrorsMap keyed by the whole json tag
appendErrorsMap_wholeTag(attr, err, g) ==
    IF g.errorsMap.isNil THEN g
    ELSE LET old == IF HasKey(g.errorsMap.m, attr) THEN g.errorsMap.m[attr] ELSE <<>>
         IN  [g EXCEPT !.errorsMap.m = Put(g.errorsMap.m, attr, Append(old, ErrorText(err)))]

appendErrorsMap(attr, err, g) ==
    IF g.errorsMap.isNil THEN g
    ELSE LET key == toJSONName(attr)
             old == IF HasKey(g.errorsMap.m, key) THEN g.errorsMap.m[key] ELSE <<>>
         IN  [g EXCEPT !.errorsMap.m = Put(g.errorsMap.m, key, Append(old, ErrorText(err)))]

\* removeDuplicates with every message kept
removeDuplicates_keepAll(xs) == xs

\* removeDuplicates: the first occurrence of each message, in order
RECURSIVE removeDuplicates(_)
removeDuplicates(xs) ==
    IF Len(xs) = 0 THEN <<>>
    ELSE LET init == removeDuplicates(SubSeq(xs, 1, Len(xs) - 1))
             x == xs[Len(xs)]
         IN  IF \E i \in 1..Len(init) : init[i] = x THEN init ELSE Append(init, x)

removeDuplicateErrors(m) == [attr \in DOMAIN m |-> removeDuplicates(m[attr])]

allErrors(m) == [errors |-> m]

\* the characters isValidTag allows besides letters and digits
TagPunctuation ==
    {"\\", "'", "\"", "!", "#", "$", "%", "&", "(", ")", "*", "+", "-", ".", "/",
     ":", "<", "=", ">", "?", "@", "[", "]", "^", "_", "{", "|", "}", "~", " "}

isValidTag(s) ==
    /\ s # EmptyStr
    /\ \A i \in 1..Len(s) : s[i] \in TagPunctuation \/ IsLetter(s[i]) \/ IsDigit(s[i])

\* the loop of parseTagIntoMap over the options, from option i on
RECURSIVE parseOptions(_, _, _, _)
parseOptions(options, i, ts, ms) ==
    IF i > Len(options) THEN [tags |-> ts, msgs |-> ms]
    ELSE LET option == TrimSpace(options[i])
             validationOptions == Split(option, "~")
             name == validationOptions[1]
         IN  IF ~isValidTag(name) THEN parseOptions(options, i + 1, ts, ms)
             ELSE parseOptions(options, i + 1, Append(ts, name),
                      Put(ms, name, IF Len(validationOptions) = 2
                                    THEN validationOptions[2] ELSE EmptyStr))

\* parseTagIntoMap appending to the tags and msgs left by the parse before
parseTagIntoMap_keepTags(tag, g) ==
    LET p == parseOptions(Split(tag, ","), 1, SubSeq(g.tags.arr, 1, g.tags.n), g.msgs)
    IN  [g EXCEPT !.tags = NewTags(p.tags), !.msgs = p.msgs]

parseTagIntoMap(tag, g) ==
    LET p == parseOptions(Split(tag, ","), 1, <<>>, EmptyMap)
    IN  [g EXCEPT !.tags = NewTags(p.tags), !.msgs = p.msgs]

\* deleteTagAndMsg: the first occurrence of tag is cut out of the slice in place,
\* the elements after it moving one place down in the backing array
deleteTagAndMsg(tag, g) ==
    LET n == g.tags.n
        arr == g.tags.arr
        found == {i \in 1..n : arr[i] = tag}
    IN  IF found = {} THEN [g EXCEPT !.msgs = Delete(g.msgs, tag)]
        ELSE LET i == CHOOSE x \in found : \A y \in found : x <= y
             IN  [g EXCEPT !.msgs = Delete(g.msgs, tag),
                           !.tags = [arr |-> [k \in 1..Len(arr) |->
                                                IF k >= i /\ k < n THEN arr[k + 1] ELSE arr[k]],
                                     n |-> n - 1]]

\* Process `required` and `optional` tags if present.
checkRequired(v, t, options) ==
    IF HasKey(options, T_required)
    THEN IF Len(options[T_required]) > 0
         THEN [ok |-> FALSE, err |-> Error(t.Name, Errorf(options[T_required]), TRUE, T_required)]
         ELSE [ok |-> FALSE, err |-> Error(t.Name, M_nonZero, FALSE, T_required)]
    ELSE IF fieldsRequiredByDefault /\ ~HasKey(options, T_optional)
    THEN [ok |-> FALSE, err |-> Error(t.Name, M_missing, FALSE, T_required)]
    ELSE [ok |-> TRUE, err |-> NilErr]

\* Process `forbidden` tag if present.
checkForbidden(v, t, options) ==
    IF HasKey(options, T_forbidden)
    THEN IF Len(options[T_forbidden]) > 0
         THEN [ok |-> FALSE, err |-> Error(t.Name, Errorf(options[T_forbidden]), TRUE, T_forbidden)]
         ELSE [ok |-> FALSE, err |-> Error(t.Name, M_illegal, FALSE, T_forbidden)]
    ELSE [ok |-> TRUE, err |-> NilErr]

\* ------------------------------------------------------------------------
\* validateField and validateStruct
\* ------------------------------------------------------------------------

Quote == <<"\"">>

\* the byte order of the printable ASCII characters (the backquote left out),
\* for sort.Sort(stringValues)
AsciiOrder ==
    <<" ", "!", "\"", "#", "$", "%", "&", "'", "(", ")", "*", "+", ",", "-", ".", "/",
      "0", "1", "2", "3", "4", "5", "6", "7", "8", "9", ":", ";", "<", "=", ">", "?",
      "@", "A", "B", "C", "D", "E", "F", "G", "H", "I", "J", "K", "L", "M", "N", "O",
      "P", "Q", "R", "S", "T", "U", "V", "W", "X", "Y", "Z", "[", "\\", "]", "^", "_",
      "a", "b", "c", "d", "e", "f", "g", "h", "i", "j", "k", "l", "m", "n", "o",
      "p", "q", "r", "s", "t", "u", "v", "w", "x", "y", "z", "{", "|", "}", "~">>

CharCode(c) == CHOOSE i \in 1..Len(AsciiOrder) : AsciiOrder[i] = c

\* func (sv stringValues) Less: a < b on strings
RECURSIVE Less(_, _)
Less(a, b) ==
    IF Len(b) = 0 THEN FALSE
    ELSE IF Len(a) = 0 THEN TRUE
    ELSE IF a[1] = b[1] THEN Less(Tail(a), Tail(b))
    ELSE CharCode(a[1]) < CharCode(b[1])

\* sort.Sort(sv): the indices of the keys, smallest key first
RECURSIVE sortedKeys(_, _)
sortedKeys(ks, S) ==
    IF S = {} THEN <<>>
    ELSE LET m == CHOOSE i \in S : \A j \in S \ {i} : Less(ks[i], ks[j])
         IN  <<m>> \o sortedKeys(ks, S \ {m})

\* the failure of a zero-parameter or parameterized rule (lines 958-965 and
\* 980-987): the custom message or the default text, and then, when the rule is
\* negated, the "does validate as" text in its place
ruleFailure(t, field, validator, validatorSpec, customErrorMessage, negate) ==
    LET customMsgExists == Len(customErrorMessage) > 0
    IN  IF negate
        THEN Error(t.Name, field \o M_doesValidate \o validator, customMsgExists,
                   stripParams(validatorSpec))
        ELSE IF customMsgExists
        THEN Error(t.Name, Errorf(customErrorMessage), customMsgExists,
                   stripParams(validatorSpec))
        ELSE Error(t.Name, field \o M_notValidate \o validator, customMsgExists,
                   stripParams(validatorSpec))

\* the param validators of one pass (lines 936-971): the keys of
\* ParamTagRegexMap whose expression matches the validator; the expressions
\* name different rules, so at most one matches and the order in which the map
\* is traversed does not matter
paramKeys(validator) == {key \in ParamTagNames : ParamTagRegexMatch(key, validator).ok}

\* lines 950-970 for the key that matches: the locals after the switch on the kind
paramTagLocals(key, tag, v, t, customErrorMessage, st) ==
    LET negate == tag[1] = "!"
        validator == IF negate THEN Tail(tag) ELSE tag
    IN  IF v.kind \in {"string", "int"}
        THEN \* (!result && !negate) || (result && negate)
             IF ParamTagFunc(key, Sprint(v), ParamTagRegexMatch(key, validator).ps) = negate
             THEN [st EXCEPT !.validResult = FALSE,
                             !.err = ruleFailure(t, Sprint(v), validator, tag,
                                                 customErrorMessage, negate)]
             ELSE st
        ELSE [st EXCEPT !.validResult = FALSE,
                        !.err = Error(t.Name,
                                      <<"V", "a", "l", "i", "d", "a", "t", "o", "r", " ">> \o validator
                                      \o <<" ", "d", "o", "e", "s", "n", "'", "t", " ", "s", "u", "p", "p", "o", "r", "t", " ", "k", "i", "n", "d", " ">> \o KindName(v),
                                      FALSE, stripParams(tag))]

\* lines 936-971: the locals and the package state after the param validators
paramTag(tag, v, t, customErrorMessage, st, g) ==
    LET validator == IF tag[1] = "!" THEN Tail(tag) ELSE tag
    IN  IF paramKeys(validator) = {} THEN [st |-> st, g |-> g]
        ELSE [st |-> paramTagLocals(CHOOSE key \in paramKeys(validator) : TRUE,
                                    tag, v, t, customErrorMessage, st),
              g |-> deleteTagAndMsg(tag, g)]

\* the validator looked up in TagMap, the negation of the tag left out
tagMapTag_ignoreNegate(tag, v, t, customErrorMessage, s) ==
    LET validator == IF tag[1] = "!" THEN Tail(tag) ELSE tag
    IN  IF validator \notin TagMapNames THEN s
        ELSE [st |-> IF v.kind = "string" /\ ~TagMapFunc(validator, Sprint(v))
                     THEN [s.st EXCEPT !.validResult = FALSE,
                                       !.err = ruleFailure(t, Sprint(v), validator, tag,
                                                           customErrorMessage, FALSE)]
                     ELSE s.st,
              g |-> deleteTagAndMsg(tag, s.g)]

\* lines 973-994: the validator looked up in TagMap. In the default case of the
\* switch `err := fmt.Errorf(...)` declares a new err for that clause, and the
\* assignment that follows sets that one: the function's err is left as it was.
tagMapTag(tag, v, t, customErrorMessage, s) ==
    LET negate == tag[1] = "!"
        validator == IF negate THEN Tail(tag) ELSE tag
    IN  IF validator \notin TagMapNames THEN s
        ELSE [st |-> IF v.kind = "string"
                     THEN IF TagMapFunc(validator, Sprint(v)) = negate
                          THEN [s.st EXCEPT !.validResult = FALSE,
                                            !.err = ruleFailure(t, Sprint(v), validator, tag,
                                                                customErrorMessage, negate)]
                          ELSE s.st
                     ELSE [s.st EXCEPT !.validResult = FALSE],
              g |-> deleteTagAndMsg(tag, s.g)]

\* lines 996-1002: add to the map of all validation errors in the struct
appendTagError(t, s) ==
    IF s.st.err.isNil THEN s
    ELSE [st |-> [s.st EXCEPT !.firstErr = IF s.st.firstErr.isNil THEN s.st.err
                                             ELSE s.st.firstErr],
          g |-> appendErrorsMap(t.json, NewError(s.st.err), s.g)]

\* One pass of the loop over tags in the scalar case (lines 922-1003).
\* st = [validResult, err, firstErr] are the function's locals; the custom
\* message is read before the tag is deleted.
scalarTag(tag, v, t, st, g) ==
    appendTagError(t,
        tagMapTag(tag, v, t, Lookup(g.msgs, tag),
            paramTag(tag, v, t, Lookup(g.msgs, tag), st, g)))

\* for _, tag := range tags: the length n is read once, when the loop starts;
\* each pass reads element i of the backing array as it is by then
RECURSIVE scalarTags(_, _, _, _, _)
scalarTags(i, n, v, t, s) ==
    IF i > n THEN s
    ELSE scalarTags(i + 1, n, v, t, scalarTag(s.g.tags.arr[i], v, t, s.st, s.g))

\* lines 877-881: the error of a custom-typed rule that fails
customTypeError(tag, v, t, customErrorMessage) ==
    IF Len(customErrorMessage) > 0
    THEN Error(t.Name, Errorf(customErrorMessage), TRUE, stripParams(tag))
    ELSE Error(t.Name, Sprint(v) \o M_notValidate \o tag, FALSE, stripParams(tag))

\* One pass of the loop over tags for the custom-typed rules (lines 871-884).
customTag(tag, v, t, o, errs, g) ==
    IF tag \notin CustomTypeTagNames THEN [errs |-> errs, g |-> g]
    ELSE [errs |-> IF CustomTypeValidate(tag, v, o) THEN errs
                   ELSE Append(errs, customTypeError(tag, v, t, Lookup(g.msgs, tag))),
          g |-> deleteTagAndMsg(tag, g)]

RECURSIVE customTags(_, _, _, _, _, _)
customTags(i, n, v, t, o, c) ==
    IF i > n THEN c
    ELSE customTags(i + 1, n, v, t, o, customTag(c.g.tags.arr[i], v, t, o, c.errs, c.g))

\* lines 886-892: every custom-typed error goes into the map
RECURSIVE appendCustomTypeErrors(_, _, _)
appendCustomTypeErrors(jsonTag, errs, g) ==
    IF Len(errs) = 0 THEN g
    ELSE appendCustomTypeErrors(jsonTag, Tail(errs), appendErrorsMap(jsonTag, errs[1], g))

\* lines 847-858: the value is empty; c is what checkRequired returned
emptyPresence(c, isOptional) ==
    IF ~c.ok /\ ~c.err.isNil
    THEN [returns |-> FALSE, err |-> c.err, firstErr |-> c.err]
    ELSE IF c.ok /\ c.err.isNil /\ isOptional
    THEN [returns |-> TRUE, err |-> NilErr, firstErr |-> NilErr]
    ELSE [returns |-> FALSE, err |-> NilErr, firstErr |-> NilErr]

\* lines 861-867: the value is not empty; c is what checkForbidden returned
nonEmptyPresence(c) ==
    IF ~c.ok /\ ~c.err.isNil
    THEN [returns |-> FALSE, err |-> c.err, firstErr |-> c.err]
    ELSE [returns |-> FALSE, err |-> NilErr, firstErr |-> NilErr]

\* Presence validation (lines 845-868): the locals err and firstErr it leaves,
\* and whether the function returns valid at line 857
presence(v, t, g) ==
    IF isEmptyValue(v)
    THEN emptyPresence(checkRequired(v, t, g.msgs), HasKey(g.msgs, T_optional))
    ELSE nonEmptyPresence(checkForbidden(v, t, g.msgs))

\* lines 903-910: g is the package state once the three presence tags are gone
deferredCheck(r, t, g) ==
    IF r.isValid /\ r.err.isNil /\ g.tags.n # 0
    THEN Result(FALSE,
                Error(t.Name, M_invalidValidator \o Quote \o g.tags.arr[1] \o Quote,
                      FALSE, stripParams(g.tags.arr[1])),
                g)
    ELSE Result(r.isValid, r.err, g)

\* the deferred function of a root call (lines 898-911)
deferred(r, t) ==
    deferredCheck(r, t,
        deleteTagAndMsg(T_forbidden,
            deleteTagAndMsg(T_required, deleteTagAndMsg(T_optional, r.g))))

\* the scalar case returning valid whatever its loop found
scalarResult_alwaysValid(s) == Result(TRUE, NilErr, s.g)

\* the result of the scalar case once its loop is over (lines 1005-1009)
scalarResult(s) ==
    IF ~s.st.validResult /\ ~s.st.firstErr.isNil
    THEN Result(FALSE, s.st.firstErr, s.g)
    ELSE Result(TRUE, NilErr, s.g)

\* the nested struct validated whatever the field's `valid` tag is
isNestedStruct_ignoreDash(validTag, valueField) ==
    \/ valueField.kind = "struct"
    \/ valueField.kind = "ptr" /\ Elem(valueField).kind = "struct"

\* whether validateStruct validates the field's value as a nested struct before
\* the field itself (lines 773-774)
isNestedStruct(validTag, valueField) ==
    /\ validTag # T_dash
    /\ \/ valueField.kind = "struct"
       \/ valueField.kind = "ptr" /\ Elem(valueField).kind = "struct"

\* lines 785-802: the field's error takes the JSON name when there is one
renameToJSON(err2, typeField) ==
    IF toJSONName(typeField.json) # EmptyStr
    THEN [err2 EXCEPT !.Name = toJSONName(typeField.json)]
    ELSE err2

\* the field without a `valid` tag, its error left out of the map
untaggedField_noReport(t, g) ==
    IF ~fieldsRequiredByDefault THEN Result(TRUE, NilErr, g)
    ELSE Result(FALSE, Error(t.Name, M_allRequired, FALSE, T_required), g)

\* the field without a `valid` tag (lines 832-838)
untaggedField(t, g) ==
    IF ~fieldsRequiredByDefault THEN Result(TRUE, NilErr, g)
    ELSE Result(FALSE, Error(t.Name, M_allRequired, FALSE, T_required),
                appendErrorsMap(t.json, Error(t.Name, M_allRequired, FALSE, T_required), g))

RECURSIVE validateStruct(_, _)
RECURSIVE validateField(_, _, _, _, _)
RECURSIVE structFields(_, _, _, _, _)
RECURSIVE sliceItems(_, _, _, _, _)
RECURSIVE mapItems(_, _, _, _, _, _)

\* the switch on v.Kind() (lines 914-1070), entered with the locals err and
\* firstErr as the presence validation left them
validateKind(v, t, o, err, firstErr, g) ==
    CASE v.kind \in ScalarKinds ->
            scalarResult(scalarTags(1, g.tags.n, v, t,
                [st |-> [validResult |-> FALSE, err |-> err, firstErr |-> firstErr],
                 g |-> g]))
      [] v.kind = "map" ->
            IF v.keyKind # "string" THEN Result(FALSE, UnsupportedTypeError(v), g)
            ELSE mapItems(v, t, o, sortedKeys(v.keys, 1..Len(v.keys)), 1,
                          Result(TRUE, NilErr, g))
      [] v.kind = "slice" -> sliceItems(v, t, o, 1, Result(TRUE, NilErr, g))
      [] v.kind = "interface" ->
            IF v.isNil THEN Result(TRUE, NilErr, g) ELSE validateStruct(Interface(v), g)
      [] v.kind = "ptr" ->
            IF v.isNil THEN Result(TRUE, NilErr, g)
            ELSE validateField(Elem(v), t, o, FALSE, g)
      [] v.kind = "struct" -> validateStruct(Interface(v), g)
      [] OTHER -> Result(FALSE, UnsupportedTypeError(v), g)

\* one element of a slice or map (lines 1019-1024 and 1038-1043)
validateItem(item, t, o, g) ==
    IF item.kind # "struct" THEN validateField(item, t, o, FALSE, g)
    ELSE validateStruct(Interface(item), g)

\* result = result && resultItem (lines 1031 and 1050)
andResult(result, r) == Result(result /\ r.isValid, r.err, r.g)

\* the loop over the elements of a slice from element i on (lines 1036-1052);
\* r holds the result so far and what the last element returned
sliceItems(v, t, o, i, r) ==
    IF ~r.err.isNil THEN Result(FALSE, r.err, r.g)
    ELSE IF i > Len(v.elems) THEN r
    ELSE sliceItems(v, t, o, i + 1,
                    andResult(r.isValid, validateItem(v.elems[i], t, o, r.g)))

\* the loop over the sorted keys of a map from key i on (lines 1017-1033)
mapItems(v, t, o, sv, i, r) ==
    IF ~r.err.isNil THEN Result(FALSE, r.err, r.g)
    ELSE IF i > Len(sv) THEN r
    ELSE mapItems(v, t, o, sv, i + 1,
                  andResult(r.isValid, validateItem(v.elems[sv[i]], t, o, r.g)))

\* lines 896-1070: a root call's result goes through the deferred function
rootResult(isRootType, t, r) == IF isRootType THEN deferred(r, t) ELSE r

\* lines 885-1070: c is what the loop over the custom-typed rules left
afterCustomTags(v, t, o, isRootType, p, c) ==
    IF Len(c.errs) > 0
    THEN Result(FALSE, ErrorsAsError(c.errs), appendCustomTypeErrors(t.json, c.errs, c.g))
    ELSE rootResult(isRootType, t, validateKind(v, t, o, p.err, p.firstErr, c.g))

\* lines 850-1070: p is what the presence validation left
afterPresence(v, t, o, isRootType, p, g) ==
    IF p.returns THEN Result(TRUE, NilErr, g)
    ELSE afterCustomTags(v, t, o, isRootType, p,
                         customTags(1, g.tags.n, v, t, o, [errs |-> <<>>, g |-> g]))

\* validateField runs all validators for a single struct field.
validateField(v, t, o, isRootType, g) ==
    IF v.kind = "invalid" THEN Result(FALSE, NilErr, g)
    ELSE IF t.valid = EmptyStr THEN untaggedField(t, g)
    ELSE IF t.valid = T_dash THEN Result(TRUE, NilErr, g)
    ELSE afterPresence(v, t, o, isRootType, presence(v, t, g), g)

\* the nested struct left out of the walk
nestedStruct_skipped(validTag, valueField, g) == Result(TRUE, NilErr, g)

\* lines 772-780: the nested struct is validated before the field itself
nestedStruct(validTag, valueField, g) ==
    IF isNestedStruct(validTag, valueField)
    THEN validateStruct(Interface(valueField), g)
    ELSE Result(TRUE, NilErr, g)

\* lines 782-807: fr is what validateField returned for field i
fieldDone(val, i, result, errs, fr) ==
    structFields(val, i + 1, result /\ fr.isValid,
                 IF ~fr.err.isNil
                 THEN Append(errs, NewError(renameToJSON(fr.err, val.fields[i])))
                 ELSE errs,
                 fr.g)

\* lines 777-807: sr is what the nested struct returned for field i
nestedDone(val, i, result, errs, sr) ==
    fieldDone(val, i, result /\ sr.isValid,
              IF ~sr.err.isNil THEN Append(errs, NewError(sr.err)) ELSE errs,
              validateField(val.elems[i], val.fields[i], val, TRUE,
                            parseTagIntoMap(val.fields[i].valid, sr.g)))

\* the loop of validateStruct over the fields, from field i on (lines 761-808)
structFields(val, i, result, errs, g) ==
    IF i > Len(val.fields)
    THEN Result(result, IF Len(errs) > 0 THEN ErrorsAsError(errs) ELSE NilErr, g)
    ELSE IF val.fields[i].PkgPath # EmptyStr
    THEN structFields(val, i + 1, result, errs, g)  \* Private field.
    ELSE nestedDone(val, i, result, errs,
                    nestedStruct(val.fields[i].valid, val.elems[i], g))

\* lines 751-759: the value behind a pointer or interface must be a struct
structOf(val, g) ==
    IF val.kind # "struct"
    THEN Result(FALSE, Error(EmptyStr, M_onlyStructs \o KindName(val), FALSE, EmptyStr), g)
    ELSE structFields(val, 1, TRUE, <<>>, g)

\* validateStruct uses `valid` field tags as validation rules.
validateStruct(s, g) ==
    IF s.kind = "nil" THEN Result(TRUE, NilErr, g)
    ELSE structOf(IF s.kind \in {"interface", "ptr"} THEN Elem(s) ELSE s, g)
\* ------------------------------------------------------------------------
\* Validate and SetFieldsRequiredByDefault
\* ------------------------------------------------------------------------

\* what Validate computes: the walk from a fresh errorsMap, then the duplicates
\* removed from every list
\* lines 735-737: what Validate hands back; r is what validateStruct returned
validateReturn(r) ==
    [isValid |-> r.isValid,
     err |-> r.err,
     walked |-> r.g.errorsMap.m,
     errorsMap |-> [r.g.errorsMap EXCEPT !.m = removeDuplicateErrors(r.g.errorsMap.m)],
     tags |-> r.g.tags,
     msgs |-> r.g.msgs]

\* lines 734-737 with the map object o handed out by make and the tags and msgs
\* the package holds when the call starts
validateFrom(i, o, t, m) ==
    validateReturn(validateStruct(i,
        Globals([isNil |-> FALSE, m |-> EmptyMap, ref |-> o], t, m)))

\* the map objects the caller can still reach
Live == {ret.report.errors.ref, earlier.report.errors.ref}

validateCall(i) == validateFrom(i, make(Live), tags, msgs)

\* ------------------------------------------------------------------------
\* The values handed to Validate
\* ------------------------------------------------------------------------

S_M       == <<"M">>
S_Michael == <<"M", "i", "c", "h", "a", "e", "l">>
S_mail    == <<"a", "@", "b", ".", "i", "o">>
S_mic     == <<"m", "i", "c">>

A_length == <<"l", "e", "n", "g", "t", "h", "(", "2", "|", "2", "0", ")">>
A_in     == <<"i", "n", "(", "M", "i", "c", "k", "|", "M", "i", "c", "h", "a", "e", "l", ")">>
A_foo    == <<"f", "o", "o">>

J_name  == <<"n", "a", "m", "e", ",", "o", "m", "i", "t", "e", "m", "p", "t", "y">>
J_email == <<"e", "m", "a", "i", "l", ",", "o", "m", "i", "t", "e", "m", "p", "t", "y">>
J_age   == <<"a", "g", "e", ",", "o", "m", "i", "t", "e", "m", "p", "t", "y">>
J_city  == <<"c", "i", "t", "y">>

K_name  == <<"n", "a", "m", "e">>
K_email == <<"e", "m", "a", "i", "l">>
K_city  == <<"c", "i", "t", "y">>

\* the rule tokens annotations are built from
RuleTokens == {T_required, T_optional, T_forbidden, R_email, A_length, A_in, A_foo, R_cust}

FewRuleTokens == {T_required, T_optional, T_forbidden, R_email, A_length}

Range(s) == {s[i] : i \in 1..Len(s)}

\* the sequences of at most k different elements of S
RECURSIVE InjSeqs(_, _)
InjSeqs(S, k) ==
    IF k = 0 THEN {<<>>}
    ELSE LET shorter == InjSeqs(S, k - 1)
         IN  shorter \cup {Append(p[1], p[2]) : p \in {q \in shorter \X S : q[2] \notin Range(q[1])}}

\* a `valid` tag: rule tokens separated by commas
Annotation(ts) == Join(ts, <<",">>)

Annotations == {Annotation(ts) : ts \in InjSeqs(RuleTokens, MaxRules)} \cup {T_dash}

FewAnnotations == {Annotation(ts) : ts \in InjSeqs(FewRuleTokens, 2)} \cup {T_dash}

\* a record of one field
Record1(f, v) == StructV(<<f>>, <<v>>)

StringValues == {EmptyStr, S_M, S_Michael, S_mail}

\* the sequences of 1..k elements of S
RECURSIVE SeqsUpTo(_, _)
SeqsUpTo(S, k) ==
    IF k = 0 THEN {<<>>}
    ELSE LET shorter == SeqsUpTo(S, k - 1)
         IN  shorter \cup {Append(p[1], p[2]) : p \in shorter \X S}

ElemValues == {StringV(EmptyStr), StringV(S_M), StringV(S_mic), StringV(S_mail)}

MapKeys == <<<<"b">>, <<"a">>, <<"c">>, <<"d">>>>

\* nested records: a city that is required, exempt, or not annotated
Inner(valid, city) == Record1(Field(<<"C", "i", "t", "y">>, valid, J_city), StringV(city))

InnerValues ==
    {Inner(valid, city) : valid \in {T_required, T_dash, EmptyStr}, city \in {EmptyStr, S_M}}

\* a record holding another record in its one field
Wrap(valid, v) == Record1(Field(<<"H", "o", "m", "e">>, valid, <<"h", "o", "m", "e">>), v)

\* the nested records wrapped in at most k records
RECURSIVE NestedValues(_)
NestedValues(k) ==
    IF k = 0 THEN InnerValues
    ELSE LET inner == NestedValues(k - 1)
         IN  inner \cup {Wrap(valid, v) : valid \in {EmptyStr, T_dash, T_required}, v \in inner}

\* the element record of a slice: a required name and an email
Pair(name, email) ==
    StructV(<<Field(<<"N", "a", "m", "e">>, T_required, <<"n", "a", "m", "e">>), Field(<<"E", "m", "a", "i", "l">>, R_email, <<"e", "m", "a", "i", "l">>)>>,
            <<StringV(name), StringV(email)>>)

PairValues == {Pair(name, email) : name \in {EmptyStr, S_Michael}, email \in {S_M, S_mic, S_mail}}

\* a record whose one field is a slice of element records
Items(valid, es) == Record1(Field(<<"I", "t", "e", "m", "s">>, valid, <<"i", "t", "e", "m", "s">>), SliceV(es))

ItemsValues ==
    {Items(valid, es) : valid \in {EmptyStr, T_required, T_dash},
                        es \in SeqsUpTo(PairValues, MaxElems)}

\* a record holding a pointer to another record
PointerNestedValues ==
    {Wrap(valid, PtrV(v)) : valid \in {EmptyStr, T_required}, v \in InnerValues}

CompositeValues ==
    {NilPtrV, NilIfaceV, NilSliceV, NilMapV, ChanV, IfaceV(StringV(S_M)),
     IntKeyMapV(<<S_M>>, <<StringV(S_M)>>)}
    \cup {PtrV(e) : e \in ElemValues \cup InnerValues}
    \cup {IfaceV(e) : e \in InnerValues}
    \cup InnerValues
    \cup {SliceV(es) : es \in SeqsUpTo(ElemValues, MaxElems)}
    \cup {SliceV(<<e>>) : e \in InnerValues}
    \cup {MapV(SubSeq(MapKeys, 1, Len(es)), es) : es \in SeqsUpTo(ElemValues, MaxElems)}

NumberValues == {IntV(0), IntV(29), BoolV(FALSE), BoolV(TRUE)}

\* a rule and its negation
Negation(tok) == <<"!">> \o tok

NegationAnnotations ==
    {R_email, R_alpha, A_length, A_in} \cup {Negation(tok) : tok \in {R_email, R_alpha, A_length, A_in}}

\* rule~message: a rule declared with a custom message
WithMessage(tok, msg) == tok \o <<"~">> \o msg

CustomMessages == {<<"n", "o", "t", " ", "t", "h", "i", "s">>, <<"w", "r", "o", "n", "g", " ", "1", "0", "0", "%">>}

CustomMessageAnnotations ==
    {WithMessage(tok, msg) : tok \in NegationAnnotations, msg \in CustomMessages}

\* json tags with and without a name, with and without options
KeyTags ==
    {EmptyStr, T_dash, <<",", "o", "m", "i", "t", "e", "m", "p", "t", "y">>, <<"-", ",", "o", "m", "i", "t", "e", "m", "p", "t", "y">>, <<"n", "a", "m", "e">>, <<"n", "a", "m", "e", ",", "o", "m", "i", "t", "e", "m", "p", "t", "y">>,
     <<"e", "m", "a", "i", "l">>}

\* a record of two failing fields
KeyPair(ja, jb) ==
    StructV(<<Field(<<"N", "a", "m", "e">>, T_required, ja), Field(<<"E", "m", "a", "i", "l">>, <<"e", "m", "a", "i", "l">>, jb)>>,
            <<StringV(EmptyStr), StringV(S_M)>>)

\* a failing string behind a pointer, in a slice and in a map
KeyWrapped(j, v) == Record1(Field(<<"M", "a", "i", "l", "s">>, <<"e", "m", "a", "i", "l">>, j), v)

WrappedValues ==
    {PtrV(StringV(S_M)), SliceV(<<StringV(S_M)>>), MapV(<<<<"a">>>>, <<StringV(S_M)>>)}

KeyValues ==
    {KeyPair(ja, jb) : ja, jb \in KeyTags}
    \cup {KeyWrapped(j, v) : j \in KeyTags, v \in WrappedValues}

\* annotations of custom-typed rules, one of them with a custom message, and a
\* zero-parameter rule
CustomTypeTokens == {R_cust, R_cust2, WithMessage(R_cust2, <<"n", "o", "t", " ", "t", "h", "i", "s">>), R_email}

CustomTypeAnnotations ==
    {Annotation(ts) : ts \in InjSeqs(CustomTypeTokens, 3)} \ {EmptyStr}

\* the README's user record
User(name, email, age) ==
    StructV(<<Field(<<"N", "a", "m", "e">>, <<"o", "p", "t", "i", "o", "n", "a", "l", ",", "l", "e", "n", "g", "t", "h", "(", "2", "|", "2", "0", ")", ",", "i", "n", "(", "M", "i", "c", "k", "|", "M", "i", "c", "h", "a", "e", "l", ")">>, J_name),
              Field(<<"E", "m", "a", "i", "l">>, <<"e", "m", "a", "i", "l">>, J_email),
              Field(<<"A", "g", "e">>, <<"-">>, J_age)>>,
            <<StringV(name), StringV(email), IntV(age)>>)

ReadmeUser == User(S_M, S_mic, 29)

ValidUser == User(S_Michael, S_mail, 29)

Inputs ==
    {Record1(Field(<<"N", "a", "m", "e">>, a, J_name), StringV(s)) : a \in Annotations, s \in StringValues}
    \cup {Record1(Field(<<"N", "a", "m", "e">>, a, J_name), v) :
             a \in FewAnnotations, v \in NumberValues \cup CompositeValues}
    \cup {Record1(PrivateField(<<"n", "a", "m", "e">>, T_required, J_name), StringV(EmptyStr))}
    \cup {ReadmeUser, ValidUser, PtrV(ReadmeUser), PtrV(ValidUser)}
    \cup NestedValues(MaxDepth)
    \cup PointerNestedValues
    \cup {Record1(Field(<<"N", "a", "m", "e">>, a, J_name), StringV(s)) :
             a \in CustomMessageAnnotations, s \in StringValues}
    \cup {Record1(Field(<<"N", "a", "m", "e">>, a, J_name), v) :
             a \in NegationAnnotations, v \in {StringV(s) : s \in StringValues} \cup NumberValues}
    \cup ItemsValues
    \cup KeyValues
    \cup {Record1(Field(<<"N", "a", "m", "e">>, a, J_name), StringV(s)) :
             a \in CustomTypeAnnotations, s \in StringValues}
    \cup {NilV, NilPtrV, StringV(S_M)}

NoCall ==
    [called |-> FALSE, flag |-> FALSE, s |-> NilV, isValid |-> FALSE, err |-> NilErr,
     walked |-> EmptyMap,
     report |-> allErrors([isNil |-> TRUE, m |-> EmptyMap, ref |-> "none"])]

NoEarlier == [returned |-> NoCall, report |-> NoCall.report]

\* no function applied on its own
NoUnit == [fn |-> "none", in |-> <<>>, returned |-> FALSE, out |-> <<>>]

\* no goroutine besides the caller
NoCalls == <<>>

Init ==
    /\ fieldsRequiredByDefault = FALSE
    /\ errorsMap = [isNil |-> TRUE, m |-> EmptyMap, ref |-> "none"]
    /\ tags = NewTags(<<>>)
    /\ msgs = EmptyMap
    /\ arg \in Inputs
    /\ ret = NoCall
    /\ earlier = NoEarlier
    /\ calls = NoCalls
    /\ unit = NoUnit

SetFieldsRequiredByDefault(value) ==
    /\ fieldsRequiredByDefault' = value
    /\ UNCHANGED <<errorsMap, tags, msgs, arg, ret, earlier, calls, unit>>

Validate ==
    \E c \in {validateCall(arg)} :
        /\ errorsMap' = c.errorsMap
        /\ tags' = c.tags
        /\ msgs' = c.msgs
        /\ ret' = [called |-> TRUE, flag |-> fieldsRequiredByDefault, s |-> arg,
                   isValid |-> c.isValid, err |-> c.err, walked |-> c.walked,
                   report |-> allErrors(c.errorsMap)]
        /\ UNCHANGED <<fieldsRequiredByDefault, arg, calls, unit>>

\* the caller drops the report of the call before
Next ==
    \/ \E value \in BOOLEAN : SetFieldsRequiredByDefault(value)
    \/ Validate /\ UNCHANGED earlier

Spec == Init /\ [][Next]_vars


\* ------------------------------------------------------------------------
\* A caller validating one record after another and holding on to a report
\* ------------------------------------------------------------------------

SeqInputs ==
    {ReadmeUser, ValidUser, StringV(S_M),
     Record1(Field(<<"N", "a", "m", "e">>, T_required, J_name), StringV(EmptyStr)),
     Record1(Field(<<"N", "a", "m", "e">>, <<"r", "e", "q", "u", "i", "r", "e", "d", ",", "e", "m", "a", "i", "l", ",", "f", "o", "o">>, J_name), StringV(EmptyStr)),
     Record1(Field(<<"H", "o", "m", "e">>, EmptyStr, J_name), StringV(S_M))}

InitSeq ==
    /\ fieldsRequiredByDefault = FALSE
    /\ errorsMap = [isNil |-> TRUE, m |-> EmptyMap, ref |-> "none"]
    /\ tags = NewTags(<<>>)
    /\ msgs = EmptyMap
    /\ arg \in SeqInputs
    /\ ret = NoCall
    /\ earlier = NoEarlier
    /\ calls = NoCalls
    /\ unit = NoUnit

\* the report object h as it reads after the step: the map it points to is
\* the package's errorsMap when both are one object
ReadAfter(h) == IF h.errors.ref = errorsMap'.ref THEN allErrors(errorsMap') ELSE h

\* the caller keeps the report it already holds
ValidateKeeping ==
    /\ Validate
    /\ earlier' = [earlier EXCEPT !.report = ReadAfter(earlier.report)]

\* the caller holds on to the report of the last call
ValidateHolding ==
    /\ Validate
    /\ earlier' = [returned |-> ret, report |-> ReadAfter(ret.report)]

\* the caller turns to another record
NextRecord ==
    /\ arg' \in SeqInputs \ {arg}
    /\ UNCHANGED <<fieldsRequiredByDefault, errorsMap, tags, msgs, ret, earlier, calls, unit>>

NextSeq ==
    \/ \E value \in BOOLEAN : SetFieldsRequiredByDefault(value)
    \/ ValidateKeeping
    \/ ValidateHolding
    \/ NextRecord

SpecSeq == InitSeq /\ [][NextSeq]_vars

\* ------------------------------------------------------------------------
\* Two goroutines calling Validate at the same time
\* ------------------------------------------------------------------------

Goroutines == {"g1", "g2"}

ConcInputs ==
    {ReadmeUser, ValidUser,
     Record1(Field(<<"N", "a", "m", "e">>, T_required, J_name), StringV(EmptyStr)),
     Record1(Field(<<"E", "m", "a", "i", "l">>, <<"e", "m", "a", "i", "l">>, J_email), StringV(S_mail))}

\* a goroutine about to call Validate(s)
Calling(s) ==
    [pc |-> "Validate", s |-> s, i |-> 1, result |-> TRUE, isValid |-> FALSE,
     report |-> NoCall.report]

InitConcurrent ==
    /\ fieldsRequiredByDefault \in BOOLEAN
    /\ errorsMap = [isNil |-> TRUE, m |-> EmptyMap, ref |-> "none"]
    /\ tags = NewTags(<<>>)
    /\ msgs = EmptyMap
    /\ arg = NilV
    /\ ret = NoCall
    /\ earlier = NoEarlier
    /\ unit = NoUnit
    /\ calls \in {c \in [Goroutines -> {Calling(s) : s \in ConcInputs}] :
                     c["g1"].s # c["g2"].s}

\* the package state as the goroutine finds it
Package == Globals(errorsMap, tags, msgs)

\* the goroutine's step leaves the package state g
Leaves(g) ==
    /\ errorsMap' = g.errorsMap
    /\ tags' = g.tags
    /\ msgs' = g.msgs
    /\ UNCHANGED <<fieldsRequiredByDefault, arg, ret, earlier, unit>>

\* line 734: errorsMap = make(map[string][]string)
MakeErrorsMap(p) ==
    /\ calls[p].pc = "Validate"
    /\ Leaves([Package EXCEPT !.errorsMap =
                   [isNil |-> FALSE, m |-> EmptyMap,
                    ref |-> make({errorsMap.ref} \cup {calls[q].report.errors.ref : q \in Goroutines})]])
    /\ calls' = [calls EXCEPT ![p].pc = "parse"]

\* lines 761-782 for field i: a private field is passed over; otherwise the
\* nested struct is validated and the field's annotation parsed
ParseField(p) ==
    /\ calls[p].pc = "parse"
    /\ calls[p].i <= Len(calls[p].s.fields)
    /\ IF calls[p].s.fields[calls[p].i].PkgPath # EmptyStr
       THEN /\ Leaves(Package)
            /\ calls' = [calls EXCEPT ![p].i = @ + 1]
       ELSE \E sr \in {nestedStruct(calls[p].s.fields[calls[p].i].valid,
                                     calls[p].s.elems[calls[p].i], Package)} :
                /\ Leaves(parseTagIntoMap(calls[p].s.fields[calls[p].i].valid, sr.g))
                /\ calls' = [calls EXCEPT ![p].pc = "field",
                                           ![p].result = @ /\ sr.isValid]

\* lines 783-807 for field i: validateField on the tags and msgs the package
\* holds now
ValidateField(p) ==
    /\ calls[p].pc = "field"
    /\ \E fr \in {validateField(calls[p].s.elems[calls[p].i], calls[p].s.fields[calls[p].i],
                                 calls[p].s, TRUE, Package)} :
           /\ Leaves(fr.g)
           /\ calls' = [calls EXCEPT ![p].pc = "parse", ![p].i = @ + 1,
                                      ![p].result = @ /\ fr.isValid]

\* lines 736-737 once the loop over the fields has ended
ReturnReport(p) ==
    /\ calls[p].pc = "parse"
    /\ calls[p].i > Len(calls[p].s.fields)
    /\ \E e \in {[errorsMap EXCEPT !.m = removeDuplicateErrors(errorsMap.m)]} :
           /\ Leaves([Package EXCEPT !.errorsMap = e])
           /\ calls' = [calls EXCEPT ![p].pc = "done", ![p].isValid = calls[p].result,
                                      ![p].report = allErrors(e)]

NextConcurrent ==
    \E p \in Goroutines :
        \/ MakeErrorsMap(p)
        \/ ParseField(p)
        \/ ValidateField(p)
        \/ ReturnReport(p)

SpecConcurrent == InitConcurrent /\ [][NextConcurrent]_vars

\* ------------------------------------------------------------------------
\* Errors.Error applied to a list of errors (error.go)
\* ------------------------------------------------------------------------

MaxErrs == 2

\* the names and texts of error_test.go, a text with spaces around it, an empty
\* text and a text holding the separator
ErrNames == {EmptyStr, <<"C", "u", "s", "t", "o", "m", " ", "E", "r", "r", "o", "r", " ", "N", "a", "m", "e">>}

ErrTexts == {<<"E", "r", "r", "o", "r", " ", "1">>, <<" ", "s", "t", "d", "l", "i", "b", " ", "e", "r", "r", "o", "r", " ", " ">>, EmptyStr, <<"a", ";", "b">>}

ErrValues ==
    {Error(n, t, c, EmptyStr) : n \in ErrNames, t \in ErrTexts, c \in BOOLEAN}

ErrorsValues == {<<>>} \cup SeqsUpTo(ErrValues, MaxErrs)

InitErrors ==
    /\ fieldsRequiredByDefault = FALSE
    /\ errorsMap = [isNil |-> TRUE, m |-> EmptyMap, ref |-> "none"]
    /\ tags = NewTags(<<>>)
    /\ msgs = EmptyMap
    /\ arg = NilV
    /\ ret = NoCall
    /\ earlier = NoEarlier
    /\ calls = NoCalls
    /\ unit \in {[fn |-> "Errors.Error", in |-> es, returned |-> FALSE, out |-> <<>>] :
                    es \in ErrorsValues}

\* es.Error() returns
ErrorsError ==
    /\ unit.fn = "Errors.Error"
    /\ ~unit.returned
    /\ unit' = [unit EXCEPT !.returned = TRUE, !.out = ErrorsText(unit.in)]
    /\ UNCHANGED <<fieldsRequiredByDefault, errorsMap, tags, msgs, arg, ret, earlier, calls>>

NextErrors == ErrorsError

SpecErrors == InitErrors /\ [][NextErrors]_vars

\* ------------------------------------------------------------------------
\* parseTagIntoMap applied to an annotation
\* ------------------------------------------------------------------------

MaxSegments == 2

\* segments of an annotation: plain rules, a rule with parameters, a parameter
\* list holding a comma, custom messages without and with a `~`, spaces around
\* a rule, an empty segment and a token with a character isValidTag rejects
Segments ==
    {T_required, A_length, <<"i", "n", "(", "a", ",", "b", ")">>, <<"e", "m", "a", "i", "l", "~", "n", "o", "t", " ", "t", "h", "i", "s">>, <<"a", "l", "p", "h", "a", "~", "a", "~", "b">>, <<" ", "e", "m", "a", "i", "l", " ">>,
     EmptyStr, <<"a", ";", "b">>}

ParseInputs == {Annotation(ss) : ss \in SeqsUpTo(Segments, MaxSegments) \ {<<>>}}

InitParse ==
    /\ fieldsRequiredByDefault = FALSE
    /\ errorsMap = [isNil |-> TRUE, m |-> EmptyMap, ref |-> "none"]
    /\ tags = NewTags(<<>>)
    /\ msgs = EmptyMap
    /\ arg = NilV
    /\ ret = NoCall
    /\ earlier = NoEarlier
    /\ calls = NoCalls
    /\ unit \in {[fn |-> "parseTagIntoMap", in |-> a, returned |-> FALSE, out |-> <<>>] :
                    a \in ParseInputs}

\* parseTagIntoMap(tag) returns, leaving its result in tags and msgs
ParseTagIntoMap ==
    /\ unit.fn = "parseTagIntoMap"
    /\ ~unit.returned
    /\ \E g \in {parseTagIntoMap(unit.in, Package)} :
           /\ tags' = g.tags
           /\ msgs' = g.msgs
    /\ unit' = [unit EXCEPT !.returned = TRUE]
    /\ UNCHANGED <<fieldsRequiredByDefault, errorsMap, arg, ret, earlier, calls>>

NextParse == ParseTagIntoMap

SpecParse == InitParse /\ [][NextParse]_vars

\* ------------------------------------------------------------------------
\* Validate on records that point to one another
\* ------------------------------------------------------------------------
\* type Node struct { Next *Node } with one `valid` tag for the field; the
\* records live in a heap and next gives, for each, the record its field points
\* to, or "nil". The goroutine's stack holds one frame per validateStruct call
\* in progress: the record and the place reached in the loop over its field.

Nodes == {"n1", "n2", "n3"}

\* the frames a goroutine's stack has room for
MaxStack == 6

NodeTags == {EmptyStr, T_dash, T_required}

InitCycle ==
    /\ fieldsRequiredByDefault = FALSE
    /\ errorsMap = [isNil |-> TRUE, m |-> EmptyMap, ref |-> "none"]
    /\ tags = NewTags(<<>>)
    /\ msgs = EmptyMap
    /\ arg = NilV
    /\ ret = NoCall
    /\ earlier = NoEarlier
    /\ unit = NoUnit
    /\ calls \in {[g1 |-> [pc |-> "Validate",
                           s |-> [root |-> n, next |-> f, valid |-> v],
                           stack |-> <<>>]] :
                     n \in Nodes, f \in [Nodes -> Nodes \cup {"nil"}], v \in NodeTags}

Frame(node, at) == [node |-> node, at |-> at]

Top(c) == c.stack[Len(c.stack)]

\* the top frame moves on to place at
MoveTo(c, at) == [c EXCEPT !.stack[Len(c.stack)].at = at]

\* the top frame calls validateStruct on node and will go on at place at
CallStruct(c, node, at) == [MoveTo(c, at) EXCEPT !.stack = Append(@, Frame(node, "nested"))]

\* the record the field of the top frame's record points to
Pointee(c) == c.s.next[Top(c).node]

\* lines 773-774: the field is not exempt and points to a struct
DescendsNested(c) == c.s.valid # T_dash /\ Pointee(c) # "nil"

\* lines 831-841 and 1060-1067: validateField goes on to the pointer case and
\* from there to the struct case only for an annotated field that is not exempt
DescendsField(c) == c.s.valid \notin {EmptyStr, T_dash} /\ Pointee(c) # "nil"

\* the top frame is about to call validateStruct
AboutToCall(c) ==
    \/ Top(c).at = "nested" /\ DescendsNested(c)
    \/ Top(c).at = "field" /\ DescendsField(c)

Others == <<fieldsRequiredByDefault, errorsMap, tags, msgs, arg, ret, earlier, unit>>

\* lines 733-735: Validate calls validateStruct on the record handed to it
CallValidateStruct(p) ==
    /\ calls[p].pc = "Validate"
    /\ calls' = [calls EXCEPT ![p].pc = "validateStruct",
                               ![p].stack = <<Frame(calls[p].s.root, "nested")>>]
    /\ UNCHANGED Others

\* lines 772-780: the nested struct is validated before the field
NestedStruct(p) ==
    /\ calls[p].pc = "validateStruct"
    /\ Top(calls[p]).at = "nested"
    /\ DescendsNested(calls[p]) => Len(calls[p].stack) < MaxStack
    /\ calls' = [calls EXCEPT ![p] =
                     IF DescendsNested(calls[p])
                     THEN CallStruct(calls[p], Pointee(calls[p]), "field")
                     ELSE MoveTo(calls[p], "field")]
    /\ UNCHANGED Others

\* lines 782-783: validateField of the field, which for a pointer to a struct
\* ends in validateStruct of the record pointed to
FieldOfNode(p) ==
    /\ calls[p].pc = "validateStruct"
    /\ Top(calls[p]).at = "field"
    /\ DescendsField(calls[p]) => Len(calls[p].stack) < MaxStack
    /\ calls' = [calls EXCEPT ![p] =
                     IF DescendsField(calls[p])
                     THEN CallStruct(calls[p], Pointee(calls[p]), "end")
                     ELSE MoveTo(calls[p], "end")]
    /\ UNCHANGED Others

\* lines 807-813: validateStruct returns to its caller, the outermost to Validate
ReturnStruct(p) ==
    /\ calls[p].pc = "validateStruct"
    /\ Top(calls[p]).at = "end"
    /\ calls' = [calls EXCEPT ![p].stack = SubSeq(@, 1, Len(@) - 1),
                               ![p].pc = IF Len(calls[p].stack) = 1 THEN "returned" ELSE @]
    /\ UNCHANGED Others

\* the stack has no room for the frame of the next call: the runtime ends the
\* program (goroutine stack exceeds its limit) and Validate does not return
StackOverflow(p) ==
    /\ calls[p].pc = "validateStruct"
    /\ Len(calls[p].stack) = MaxStack
    /\ AboutToCall(calls[p])
    /\ calls' = [calls EXCEPT ![p].pc = "overflow"]
    /\ UNCHANGED Others

NextCycle ==
    \/ CallValidateStruct("g1")
    \/ NestedStruct("g1")
    \/ FieldOfNode("g1")
    \/ ReturnStruct("g1")
    \/ StackOverflow("g1")

\* the goroutine keeps running as long as it has a step to take
SpecCycle == InitCycle /\ [][NextCycle]_vars /\ WF_vars(NextCycle)
\* ------------------------------------------------------------------------
\* Properties
\* ------------------------------------------------------------------------

\* the report of the last call: the map under "errors"
Report == ret.report.errors.m

\* the messages the report holds under a key
Messages(key) == IF HasKey(Report, key) THEN Report[key] ELSE <<>>

\* how often a message occurs in a list
Count(x, xs) == Cardinality({i \in 1..Len(xs) : xs[i] = x})

\* the argument is a record of one exported field
IsRecord1 == arg.kind = "struct" /\ Len(arg.fields) = 1 /\ arg.fields[1].PkgPath = EmptyStr

TheField == arg.fields[1]
TheValue == arg.elems[1]

\* the key of the field's messages: its JSON name
TheKey == Split(TheField.json, ",")[1]

\* the rule tokens the field's annotation declares
TheTokens == IF TheField.valid = EmptyStr THEN <<>> ELSE Split(TheField.valid, ",")

Declares(tok) == tok \in Range(TheTokens)

\* the registered zero-parameter and parameterized rules among the tokens used
ContentRules == {R_email, R_alpha, A_length, A_in}

\* whether a string passes a registered rule, from the rule's own predicate
Passes(tok, str) ==
    CASE tok = R_email -> IsEmail(str)
      [] tok = R_alpha -> IsAlpha(str)
      [] tok = A_length -> Len(str) >= 2 /\ Len(str) <= 20
      [] tok = A_in -> str \in {<<"M", "i", "c", "k">>, S_Michael}
      [] tok = R_cust -> Len(str) >= 2
      [] tok = R_cust2 -> Len(str) >= 7
      [] OTHER -> FALSE

\* C1: Validate on the README's record {Name: "M", Email: "mic", Age: 29} returns
\* false and a report with exactly the keys name and email, name holding the
\* length and the in failure in that order, email the email failure.
C1_ReadmeScenario ==
    (ret.called /\ arg = ReadmeUser) =>
        /\ ~ret.isValid
        /\ DOMAIN Report = {K_name, K_email}
        /\ Report[K_name] = <<<<"M", " ", "d", "o", "e", "s", " ", "n", "o", "t", " ", "v", "a", "l", "i", "d", "a", "t", "e", " ", "a", "s", " ", "l", "e", "n", "g", "t", "h", "(", "2", "|", "2", "0", ")">>,
                              <<"M", " ", "d", "o", "e", "s", " ", "n", "o", "t", " ", "v", "a", "l", "i", "d", "a", "t", "e", " ", "a", "s", " ", "i", "n", "(", "M", "i", "c", "k", "|", "M", "i", "c", "h", "a", "e", "l", ")">>>>
        /\ Report[K_email] = <<<<"m", "i", "c", " ", "d", "o", "e", "s", " ", "n", "o", "t", " ", "v", "a", "l", "i", "d", "a", "t", "e", " ", "a", "s", " ", "e", "m", "a", "i", "l">>>>

C1_Witness == ret.called /\ arg = ReadmeUser /\ ~ret.isValid

\* C2: whenever Validate returns false, the report holds at least one message
\* under at least one key.
C2_FailureIsReported ==
    (ret.called /\ ~ret.isValid) => \E key \in DOMAIN Report : Len(Report[key]) > 0

\* C3: whenever Validate returns true, the report is a non-nil map that holds no
\* message for any field.
C3_ValidMeansEmptyReport ==
    (ret.called /\ ret.isValid) =>
        /\ ~ret.report.errors.isNil
        /\ \A key \in DOMAIN Report : Len(Report[key]) = 0
        /\ DOMAIN Report = {}

C3_Witness == ret.called /\ ret.isValid /\ arg = ValidUser

\* C4: for a string field with a non-empty value whose declared rules are all
\* registered, every declared rule the value fails has its failure message in
\* the field's list.
C4_AllFailuresReported ==
    (/\ ret.called
     /\ IsRecord1
     /\ TheValue.kind = "string"
     /\ Len(TheValue.str) > 0
     /\ Range(TheTokens) \subseteq ContentRules) =>
        \A tok \in Range(TheTokens) :
            ~Passes(tok, TheValue.str) =>
                (TheValue.str \o M_notValidate \o tok) \in Range(Messages(TheKey))

\* C5: a field of any kind that declares `required` and holds an empty value
\* makes Validate return false.
C5_RequiredEmptyFails ==
    (ret.called /\ IsRecord1 /\ Declares(T_required) /\ isEmptyValue(TheValue)) =>
        ~ret.isValid

\* C6: a field of any kind that declares `forbidden` and holds a non-empty value
\* makes Validate return false with the "Illegal attribute" error of that field.
C6_ForbiddenPresentFails ==
    (ret.called /\ IsRecord1 /\ Declares(T_forbidden) /\ ~isEmptyValue(TheValue)) =>
        /\ ~ret.isValid
        /\ M_illegal \in Range(Messages(TheKey))

\* whether every string of a value passes rule X, an empty element being skipped
AllPass(X, v) ==
    IF v.kind = "string" THEN Passes(X, v.str)
    ELSE \A i \in 1..Len(v.elems) :
            Len(v.elems[i].str) = 0 \/ Passes(X, v.elems[i].str)

\* C7: a field declared `optional,X`, X a registered or custom-typed rule, is
\* valid without any message when its value is empty, and otherwise valid
\* exactly when X passes (on a string; on every element of a slice of strings).
C7_OptionalThenRule ==
    (/\ ret.called
     /\ IsRecord1
     /\ Len(TheTokens) = 2
     /\ TheTokens[1] = T_optional
     /\ TheTokens[2] \in {R_email, A_length, A_in, R_cust}
     /\ \/ TheValue.kind = "string"
        \/ TheValue.kind = "slice"
           /\ \A i \in 1..Len(TheValue.elems) : TheValue.elems[i].kind = "string") =>
        IF isEmptyValue(TheValue)
        THEN ret.isValid /\ DOMAIN Report = {}
        ELSE ret.isValid <=> AllPass(TheTokens[2], TheValue)

\* C8: a string field that declares `required`, alone or with other rules in any
\* order, reports exactly one presence error when the string is empty and none
\* when it is not.
C8_RequiredString ==
    (ret.called /\ IsRecord1 /\ TheValue.kind = "string" /\ Declares(T_required)) =>
        IF Len(TheValue.str) = 0
        THEN Count(M_nonZero, Messages(TheKey)) = 1
        ELSE Count(M_nonZero, Messages(TheKey)) = 0

\* C9: with fields required by default, a field without annotation makes
\* Validate return false and reports the "required" error once for that field,
\* whatever its value; annotated `-`, the field has no error and the result is
\* not false.
C9_RequiredByDefault ==
    (ret.called /\ ret.flag /\ IsRecord1) =>
        /\ TheField.valid = EmptyStr =>
              /\ ~ret.isValid
              /\ Count(M_allRequired, Messages(TheKey)) = 1
              /\ Len(Messages(TheKey)) = 1
        /\ TheField.valid = T_dash =>
              /\ ret.isValid
              /\ DOMAIN Report = {}

C9_Witness ==
    /\ ret.called /\ ret.flag /\ IsRecord1
    /\ TheField.valid = EmptyStr
    /\ TheValue = StringV(S_Michael)
    /\ ~ret.isValid

\* whether no rule applies anywhere in a value: every field of every record in
\* it is annotated `-` (whatever it holds) or is not annotated and holds only
\* such records
RECURSIVE NoRules(_)
NoRules(v) ==
    IF v.kind = "struct"
    THEN \A i \in 1..Len(v.fields) :
            \/ v.fields[i].valid = T_dash
            \/ v.fields[i].valid = EmptyStr /\ NoRules(v.elems[i])
    ELSE \A i \in 1..Len(v.elems) : NoRules(v.elems[i])

\* C10: with fields required by default off, a record whose fields are all
\* unannotated or annotated `-`, at every level, is valid with an empty report;
\* what a field annotated `-` holds is not validated.
C10_NoRulesIsValid ==
    (ret.called /\ ~ret.flag /\ arg.kind = "struct" /\ NoRules(arg)) =>
        ret.isValid /\ DOMAIN Report = {}

C10_Witness ==
    /\ ret.called /\ ~ret.flag /\ ret.isValid
    /\ arg = Record1(Field(<<"N", "a", "m", "e">>, T_dash, J_name), Inner(T_required, EmptyStr))


\* whether a record holds, behind fields that are not exempt, the city field
\* declared `required` with an empty value
RECURSIVE HoldsFailingCity(_)
HoldsFailingCity(v) ==
    /\ v.kind = "struct"
    /\ Len(v.fields) = 1
    /\ IF v.fields[1].Name = <<"C", "i", "t", "y">>
       THEN v.fields[1].valid = T_required /\ v.elems[1] = StringV(EmptyStr)
       ELSE /\ v.fields[1].Name = <<"H", "o", "m", "e">>
            /\ v.fields[1].valid # T_dash
            /\ HoldsFailingCity(IF v.elems[1].kind = "ptr" THEN Elem(v.elems[1])
                                ELSE v.elems[1])

\* C11: when the field of a nested record fails, Validate returns false and the
\* failure is reported under the inner field's own JSON name, not under the
\* JSON name of the field that holds the nested record.
C11_NestedErrorUnderInnerName ==
    (ret.called /\ HoldsFailingCity(arg) /\ arg.fields[1].Name = <<"H", "o", "m", "e">>) =>
        /\ ~ret.isValid
        /\ M_nonZero \in Range(Messages(K_city))
        /\ M_nonZero \notin Range(Messages(<<"h", "o", "m", "e">>))

C11_Witness ==
    /\ ret.called
    /\ arg = Wrap(EmptyStr, Inner(T_required, EmptyStr))
    /\ ~ret.isValid
    /\ Messages(K_city) = <<M_nonZero>>

\* the field holds a slice of non-empty strings
IsStringSlice ==
    /\ IsRecord1
    /\ TheValue.kind = "slice"
    /\ \A i \in 1..Len(TheValue.elems) :
          TheValue.elems[i].kind = "string" /\ Len(TheValue.elems[i].str) > 0

\* C12: every element of a slice field that carries a rule is validated: the
\* field is valid only if each element passes the rule, and the failure of every
\* failing element, a later one included, is in the report.
C12_EveryElementValidated ==
    (/\ ret.called
     /\ IsStringSlice
     /\ Len(TheTokens) = 1
     /\ TheTokens[1] \in {R_email, A_length}) =>
        /\ ret.isValid =>
              \A i \in 1..Len(TheValue.elems) : Passes(TheTokens[1], TheValue.elems[i].str)
        /\ \A i \in 1..Len(TheValue.elems) :
              ~Passes(TheTokens[1], TheValue.elems[i].str) =>
                  (TheValue.elems[i].str \o M_notValidate \o TheTokens[1])
                      \in Range(Messages(TheKey))

\* the argument is a record whose field is a slice of element records
IsItems == arg.kind = "struct" /\ Len(arg.fields) = 1 /\ arg.fields[1].Name = <<"I", "t", "e", "m", "s">>

\* the name and the email of element record i
ItemName(i) == arg.elems[1].elems[i].elems[1].str
ItemEmail(i) == arg.elems[1].elems[i].elems[2].str

ItemInvalid(i) == ItemName(i) = EmptyStr \/ ~IsEmail(ItemEmail(i))

\* the elements up to the first invalid one are the invalid one and valid ones
FirstInvalid(k) == ItemInvalid(k) /\ \A j \in 1..(k - 1) : ~ItemInvalid(j)

\* C13: a slice field of records is traversed until the first invalid element:
\* Validate returns false, all the field errors of that element are in the
\* report, and nothing of the elements after it is.
C13_SliceOfRecords ==
    (ret.called /\ IsItems /\ arg.fields[1].valid # T_dash) =>
        \A k \in 1..Len(arg.elems[1].elems) :
            FirstInvalid(k) =>
                /\ ~ret.isValid
                /\ Messages(<<"n", "a", "m", "e">>) =
                      IF ItemName(k) = EmptyStr THEN <<M_nonZero>> ELSE <<>>
                /\ Messages(<<"e", "m", "a", "i", "l">>) =
                      IF IsEmail(ItemEmail(k)) THEN <<>>
                      ELSE <<ItemEmail(k) \o M_notValidate \o R_email>>
                /\ DOMAIN Report \subseteq {<<"n", "a", "m", "e">>, <<"e", "m", "a", "i", "l">>}

\* the rule a token names, without its negation mark
Unnegated(tok) == IF tok[1] = "!" THEN Tail(tok) ELSE tok

\* the same field with the negation of its rule added or taken away
CounterpartRecord ==
    Record1([TheField EXCEPT !.valid = IF TheField.valid[1] = "!" THEN Tail(TheField.valid)
                                       ELSE Negation(TheField.valid)],
            TheValue)

\* the field holds a scalar and declares one registered rule, perhaps negated,
\* and the flag is what it was when Validate was called
IsNegationCase ==
    /\ ret.called
    /\ ret.flag = fieldsRequiredByDefault
    /\ IsRecord1
    /\ TheValue.kind \in ScalarKinds
    /\ TheField.valid # EmptyStr
    /\ Unnegated(TheField.valid) \in {R_email, R_alpha, A_length, A_in}

\* the rule supports the kind of the value (a zero-parameter rule a string, a
\* parameterized rule a string or a number) and the presence validation passes
NegationApplies ==
    /\ \/ TheValue.kind = "string"
       \/ TheValue.kind = "int" /\ Unnegated(TheField.valid) \in {A_length, A_in}
    /\ ~isEmptyValue(TheValue) \/ ~ret.flag

IsCustomMessageCase ==
    /\ ret.called
    /\ IsRecord1
    /\ TheValue.kind = "string"
    /\ Len(TheValue.str) > 0
    /\ TheField.valid \in CustomMessageAnnotations

DeclaredRule == Split(TheField.valid, "~")[1]
DeclaredMessage == Split(TheField.valid, "~")[2]

\* the declared rule fails on the value: the rule does not pass, or it passes
\* and is negated
DeclaredRuleFails == Passes(Unnegated(DeclaredRule), TheValue.str) = (DeclaredRule[1] = "!")

\* C15: when a rule declared with a custom message fails, negated or not, the
\* message recorded for the failure is the custom message.
C15_CustomMessageRecorded ==
    (IsCustomMessageCase /\ DeclaredRuleFails) =>
        /\ ~ret.isValid
        /\ Messages(TheKey) = <<DeclaredMessage>>

\* the position of the first occurrence of x in xs
FirstAt(xs, x) == CHOOSE i \in 1..Len(xs) : xs[i] = x /\ \A j \in 1..(i - 1) : xs[j] # x

HasDuplicate(xs) == \E i, j \in 1..Len(xs) : i < j /\ xs[i] = xs[j]

\* ys holds every message of xs once, ordered by first occurrence in xs
IsFirstOccurrences(ys, xs) ==
    /\ ~HasDuplicate(ys)
    /\ {ys[i] : i \in 1..Len(ys)} = {xs[i] : i \in 1..Len(xs)}
    /\ \A p, q \in 1..Len(ys) : p < q => FirstAt(xs, ys[p]) < FirstAt(xs, ys[q])

\* C16: every list of the returned report is free of duplicates and holds the
\* messages appended during the walk in the order of their first occurrence.
C16_ReportDeduplicated ==
    ret.called =>
        /\ DOMAIN ret.report.errors.m = DOMAIN ret.walked
        /\ \A attr \in DOMAIN ret.walked :
               IsFirstOccurrences(ret.report.errors.m[attr], ret.walked[attr])

\* the walk appended one text twice to a field's list, and another text as well
C16_Witness ==
    /\ ret.called
    /\ \E attr \in DOMAIN ret.walked :
           /\ HasDuplicate(ret.walked[attr])
           /\ Len(ret.report.errors.m[attr]) > 1

\* the caller holds the report of a call made before the last one
TwoCalls == earlier.returned.called /\ ret.called

\* C17: two Validate calls on the same record under the same flag return the
\* same isValid and the same report: same keys, same messages, same order.
C17_Idempotent ==
    (TwoCalls /\ earlier.returned.s = ret.s /\ earlier.returned.flag = ret.flag) =>
        /\ ret.isValid = earlier.returned.isValid
        /\ ret.report.errors.m = earlier.returned.report.errors.m

\* a failing record of several rules validated twice under the same flag
C17_Witness ==
    /\ TwoCalls
    /\ earlier.returned.s = ret.s
    /\ earlier.returned.flag = ret.flag
    /\ ~ret.isValid
    /\ \E attr \in DOMAIN ret.report.errors.m : Len(ret.report.errors.m[attr]) > 1

\* what Validate returns for i when nothing was validated before
validateAlone(i) == validateFrom(i, "map1", NewTags(<<>>), EmptyMap)

\* C18: the report of a call holds what validating the call's record yields
\* when nothing was validated before, and a report handed out by an earlier
\* call still reads as it did when it was returned.
C18_NoLeakAcrossCalls ==
    /\ (ret.called /\ ret.flag = fieldsRequiredByDefault) =>
           /\ ret.isValid = validateAlone(ret.s).isValid
           /\ ret.report.errors.m = validateAlone(ret.s).errorsMap.m
    /\ earlier.returned.called => earlier.report = earlier.returned.report

\* a failing record validated after another failing record whose report the
\* caller still holds
C18_Witness ==
    /\ TwoCalls
    /\ ret.flag = fieldsRequiredByDefault
    /\ ret.s # earlier.returned.s
    /\ DOMAIN ret.report.errors.m # {}
    /\ DOMAIN earlier.report.errors.m # {}
    /\ ret.report.errors.m # earlier.report.errors.m

\* C19: each of two concurrent Validate calls on different records returns the
\* isValid and the report it would return if it ran alone.
C19_ConcurrentCallsIsolated ==
    \A p \in DOMAIN calls :
        calls[p].pc = "done" =>
            /\ calls[p].isValid = validateAlone(calls[p].s).isValid
            /\ calls[p].report.errors.m = validateAlone(calls[p].s).errorsMap.m

\* the json name of a json tag: the part before the first comma, and no name
\* when that part is `-`
KeyOf(json) ==
    LET c    == IndexOf(json, ",")
        name == IF c = 0 THEN json ELSE SubSeq(json, 1, c - 1)
    IN  IF name = T_dash THEN EmptyStr ELSE name

\* the messages of the fields of arg whose json name is k, in field order
MessagesUnder(k, fs, ms) ==
    (IF KeyOf(fs[1].json) = k THEN <<ms[1]>> ELSE <<>>)
        \o (IF KeyOf(fs[2].json) = k THEN <<ms[2]>> ELSE <<>>)

IsKeyPair == \E ja, jb \in KeyTags : arg = KeyPair(ja, jb)

IsKeyWrapped == \E j \in KeyTags, v \in WrappedValues : arg = KeyWrapped(j, v)

M_notEmail == S_M \o M_notValidate \o <<"e", "m", "a", "i", "l">>

\* C20: every message is stored under the json name of the field that
\* produced it, an element or pointed-to value under the name of its field;
\* fields without a json name share the list under the empty key.
C20_MessagesUnderJSONName ==
    /\ (ret.called /\ IsKeyPair) =>
           ret.report.errors.m =
               [k \in {KeyOf(arg.fields[1].json), KeyOf(arg.fields[2].json)} |->
                    MessagesUnder(k, arg.fields, <<M_nonZero, M_notEmail>>)]
    /\ (ret.called /\ IsKeyWrapped) =>
           ret.report.errors.m = [k \in {KeyOf(arg.fields[1].json)} |-> <<M_notEmail>>]

\* two failing fields without a json name: one list under the empty key
C20_Witness ==
    /\ ret.called
    /\ IsKeyPair
    /\ arg.fields[1].json = EmptyStr
    /\ arg.fields[2].json = <<"-", ",", "o", "m", "i", "t", "e", "m", "p", "t", "y">>
    /\ ret.report.errors.m = [k \in {EmptyStr} |-> <<M_nonZero, M_notEmail>>]

\* s without the spaces at its start and at its end
RECURSIVE Stripped(_)
Stripped(s) ==
    IF Len(s) = 0 THEN s
    ELSE IF Head(s) = " " THEN Stripped(Tail(s))
    ELSE IF s[Len(s)] = " " THEN Stripped(SubSeq(s, 1, Len(s) - 1))
    ELSE s

\* C21: Errors.Error() is the wrapped texts of the elements, each without the
\* spaces around it, in list order with ";" between them, whatever the
\* elements' Name and CustomErrorMessageExists; the empty string for no element.
C21_ErrorsJoined ==
    (unit.fn = "Errors.Error" /\ unit.returned) =>
        unit.out = Join([i \in 1..Len(unit.in) |-> Stripped(unit.in[i].Err)], ";")

\* two elements, the first named and with spaces around its text
C21_Witness ==
    /\ unit.fn = "Errors.Error"
    /\ unit.returned
    /\ Len(unit.in) = 2
    /\ unit.in[1].Name # EmptyStr
    /\ ~unit.in[1].CustomErrorMessageExists
    /\ unit.in[1].Err = <<" ", "s", "t", "d", "l", "i", "b", " ", "e", "r", "r", "o", "r", " ", " ">>
    /\ unit.out = <<"s", "t", "d", "l", "i", "b", " ", "e", "r", "r", "o", "r", ";", "E", "r", "r", "o", "r", " ", "1">>

PresenceDirectives == {T_required, T_optional, T_forbidden}

\* the rule tokens of the inputs that some registry holds
RegisteredRules == {R_email, R_alpha, A_length, A_in, R_cust, R_cust2}

\* the walk ended with the invalid-validator error for the field
InvalidValidatorError == ~ret.err.isNil /\ HasPrefix(ret.err.Err, M_invalidValidator)

IsScalarCase == ret.called /\ IsRecord1 /\ TheValue.kind = "string" /\ Len(TheValue.str) > 0

\* C22: on a scalar field the invalid-validator error arises only when a
\* declared token that is not a presence directive is in no registry, and a
\* field whose declared rules are all registered and all passed is valid.
C22_InvalidValidatorOnlyIfUnregistered ==
    IsScalarCase =>
        /\ InvalidValidatorError =>
               \E tok \in Range(TheTokens) :
                   tok \notin PresenceDirectives /\ tok \notin RegisteredRules
        /\ (/\ Len(TheTokens) > 0
            /\ Range(TheTokens) \subseteq RegisteredRules
            /\ \A tok \in Range(TheTokens) : Passes(tok, TheValue.str)) => ret.isValid

\* the field Home, declaring `required` or (fields not being required by
\* default) nothing, holds a nested record directly
IsNestedCase ==
    /\ ret.called
    /\ ret.flag = fieldsRequiredByDefault
    /\ \E valid \in {EmptyStr, T_required}, v \in InnerValues :
           /\ arg = Wrap(valid, v)
           /\ valid = EmptyStr => ~ret.flag

\* the nested record validated on its own is valid
NestedRecordValid == validateAlone(TheValue).isValid

\* C23: a field whose tokens are presence directives only and whose nested
\* record validates is valid, whatever the nested record's fields declare.
C23_NestedOutcomeOwnAnnotation ==
    (IsNestedCase /\ NestedRecordValid) => ret.isValid

\* an empty string under an annotation of registered rules and presence
\* directives that does not declare `required`
IsEmptyNotRequired ==
    /\ ret.called
    /\ IsRecord1
    /\ TheValue = StringV(EmptyStr)
    /\ Len(TheTokens) > 0
    /\ Range(TheTokens) \subseteq (RegisteredRules \cup {T_optional, T_forbidden})

\* C24: an empty value that is not required (the flag off, or `optional`
\* declared) is valid, and no content rule is evaluated on it: no message.
C24_EmptyNotRequiredIsValid ==
    (IsEmptyNotRequired /\ (~ret.flag \/ Declares(T_optional))) =>
        /\ ret.isValid
        /\ DOMAIN Report = {}

\* a non-empty string under an annotation of custom-typed rules and `email`
IsCustomTypeCase ==
    /\ ret.called
    /\ IsRecord1
    /\ TheValue.kind = "string"
    /\ Len(TheValue.str) > 0
    /\ TheField.valid \in CustomTypeAnnotations

\* the rule name of a declared token, and its custom message
RuleOf(tok) == Split(tok, "~")[1]
MessageOf(tok) == IF IndexOf(tok, "~") = 0 THEN EmptyStr ELSE Split(tok, "~")[2]

\* the declared custom-typed rules the value fails
FailingCustomTyped ==
    {tok \in Range(TheTokens) :
        RuleOf(tok) \in {R_cust, R_cust2} /\ ~Passes(RuleOf(tok), TheValue.str)}

\* the message of a failing custom-typed rule
CustomTypedMessage(tok) ==
    IF MessageOf(tok) # EmptyStr THEN MessageOf(tok)
    ELSE TheValue.str \o M_notValidate \o RuleOf(tok)

\* C25: when a declared custom-typed predicate fails, the field is invalid and
\* its messages are exactly the failure messages of the failing custom-typed
\* predicates; no message of another rule is added.
C25_CustomTypedShortCircuit ==
    (IsCustomTypeCase /\ FailingCustomTyped # {}) =>
        /\ ~ret.isValid
        /\ DOMAIN Report = {TheKey}
        /\ Range(Messages(TheKey)) = {CustomTypedMessage(tok) : tok \in FailingCustomTyped}

\* the segments of s between its commas outside parentheses; cur is the segment
\* read so far and depth the number of parentheses open
RECURSIVE TopLevelSegments(_, _, _)
TopLevelSegments(s, cur, depth) ==
    IF Len(s) = 0 THEN <<cur>>
    ELSE IF Head(s) = "," /\ depth = 0
         THEN <<cur>> \o TopLevelSegments(Tail(s), EmptyStr, 0)
    ELSE TopLevelSegments(Tail(s), Append(cur, Head(s)),
                          IF Head(s) = "(" THEN depth + 1
                          ELSE IF Head(s) = ")" /\ depth > 0 THEN depth - 1
                          ELSE depth)

\* the rule token of a trimmed segment: the text before the first `~`
TokenOf(seg) ==
    IF IndexOf(seg, "~") = 0 THEN seg ELSE SubSeq(seg, 1, IndexOf(seg, "~") - 1)

\* its custom message: everything after the first `~`
CustomMessageOf(seg) ==
    IF IndexOf(seg, "~") = 0 THEN EmptyStr ELSE SubSeq(seg, IndexOf(seg, "~") + 1, Len(seg))

\* the rule invocations of an annotation: its trimmed segments whose token
\* is allowed, in order
RECURSIVE KeptSegments(_)
KeptSegments(segs) ==
    IF Len(segs) = 0 THEN <<>>
    ELSE (IF isValidTag(TokenOf(Stripped(Head(segs)))) THEN <<Stripped(Head(segs))>> ELSE <<>>)
             \o KeptSegments(Tail(segs))

Invocations == KeptSegments(TopLevelSegments(unit.in, EmptyStr, 0))

\* C26: parsing an annotation yields one rule per top-level segment, in order,
\* the token being the trimmed segment's text before its first `~` and the
\* custom message everything after it; segments with an empty or disallowed
\* token are dropped.
C26_ParsedInvocations ==
    (unit.fn = "parseTagIntoMap" /\ unit.returned) =>
        /\ SubSeq(tags.arr, 1, tags.n) = [i \in 1..Len(Invocations) |-> TokenOf(Invocations[i])]
        /\ \A i \in 1..Len(Invocations) :
               (\A j \in (i + 1)..Len(Invocations) :
                    TokenOf(Invocations[j]) # TokenOf(Invocations[i])) =>
                   Lookup(msgs, TokenOf(Invocations[i])) = CustomMessageOf(Invocations[i])

\* C27: every Validate call returns, also on records that reach themselves
\* through their pointer fields.
C27_ValidateReturns == <>(calls["g1"].pc = "returned")
====
